---------------------------- MODULE Spec2Model ----------------------------
(***************************************************************************)
(* Model of the sensitivity engine (src/lib/sensitivity-calculator.ts) and  *)
(* of the page that drives it.                                              *)
(*                                                                          *)
(* The engine multiplies IEEE-754 binary64 numbers and rounds the product   *)
(* with Math.round.  The products are modelled bit for bit: a double is a   *)
(* record [m, e] standing for M * 2^e, where M, 2^52 <= M < 2^53, is kept   *)
(* as four limbs of 14 bits (least significant first), so that every        *)
(* intermediate value of the arithmetic stays below 2^31.                   *)
(***************************************************************************)
EXTENDS Integers, Sequences, FiniteSets, TLC

(* The state: the page's timer callback hands an input record to            *)
(* calculateSensitivity, which returns a fresh result record, and then both *)
(* to generateExplanation.                                                  *)
VARIABLES
    input,        \* the CalculationInput of the invocation at hand
    result,       \* what calculateSensitivity returned: Null before, <<r>> after
    explanation,  \* what generateExplanation returned: Null before, <<e>> after
    calls,        \* the earlier invocations, oldest first: [input, result]
    presetsFile,     \* data/presets.json
    presetRequest,   \* the request the preset route handled last
    presetResponse,  \* the response it gave
    devicesFile,     \* data/devices.json
    deviceRequest,   \* the request the device-check route handled last
    deviceResponse,  \* the response it gave
    deviceLog,       \* the file and network operations of that request, in order
    formData,          \* the fields of the form, strings as the inputs hold them
    deviceSpecs,       \* the detected device: Null, or <<device>>
    deviceError,       \* the error under the device name: Null, or <<message>>
    isCheckingDevice,  \* a device check is under way
    showManualInput,   \* the manual section of the form is shown
    showDpiQuestion,   \* the dpi question is shown
    deviceFetch,       \* the device check in flight: Null, or <<deviceName>>
    isLoading,         \* the page waits for the timer of handleGenerate
    timers,            \* the data of the pending timers, oldest first
    generatedResult,   \* what the page shows: Null, or <<GeneratedResult>>
    presetPosts,       \* the bodies handleSavePreset sent, oldest first
    presetHandlers     \* the preset requests being handled side by side

engineVars == <<input, result, explanation, calls>>
presetVars == <<presetsFile, presetRequest, presetResponse>>
deviceVars == <<devicesFile, deviceRequest, deviceResponse, deviceLog>>

formVars == <<formData, deviceSpecs, deviceError, isCheckingDevice,
              showManualInput, showDpiQuestion, deviceFetch>>
pageVars == <<isLoading, timers, generatedResult, presetPosts>>

vars == <<input, result, explanation, calls,
          presetsFile, presetRequest, presetResponse,
          devicesFile, deviceRequest, deviceResponse, deviceLog,
          formData, deviceSpecs, deviceError, isCheckingDevice,
          showManualInput, showDpiQuestion, deviceFetch,
          isLoading, timers, generatedResult, presetPosts, presetHandlers>>

----------------------------------------------------------------------------
(* IEEE-754 binary64 arithmetic on positive normal numbers.                 *)

\* The limb base, 2^14.
LimbBase == 2^14

\* floor(log2(n/d)) for integers n, d >= 1.
RECURSIVE Lg(_, _)
Lg(n, d) ==
    IF n >= 2 * d THEN 1 + Lg(n, 2 * d)
    ELSE IF n < d THEN Lg(2 * n, d) - 1
    ELSE 0

\* The 53-bit significand 2^53, which is renormalised to 2^52 with the
\* exponent raised by one.
Normalise(m, e) ==
    IF m[4] >= 2^11 THEN [m |-> <<0, 0, 0, 2^10>>, e |-> e + 1]
    ELSE [m |-> m, e |-> e]

\* m + 1 on limbs (the carry runs up the limbs).
IncLimbs(m) ==
    LET c1 == IF m[1] + 1 = LimbBase THEN 1 ELSE 0
        c2 == IF m[2] + c1 = LimbBase THEN 1 ELSE 0
        c3 == IF m[3] + c2 = LimbBase THEN 1 ELSE 0
    IN  << (m[1] + 1) % LimbBase, (m[2] + c1) % LimbBase,
           (m[3] + c2) % LimbBase, m[4] + c3 >>

\* Round to nearest, ties to even: q is the truncated significand, half says
\* that the first discarded bit is set, sticky that a later one is.
RoundNearestEven(q, half, sticky, e) ==
    IF half /\ (sticky \/ q[1] % 2 = 1) THEN Normalise(IncLimbs(q), e)
    ELSE [m |-> q, e |-> e]

\* The double nearest to n/d (a decimal literal such as 1.22 = 122/100, an
\* integer n/1, or the correctly rounded quotient of two integers).
ToDouble(n, d) ==
    LET lg == Lg(n, d)
        nn == IF lg < 0 THEN n * 2^(0 - lg) ELSE n
        dd == IF lg > 0 THEN d * 2^lg ELSE d
        \* nn/dd is in [1, 2): long division, one limb at a time.
        t3 == nn * 2^10
        l3 == t3 \div dd
        t2 == (t3 % dd) * LimbBase
        l2 == t2 \div dd
        t1 == (t2 % dd) * LimbBase
        l1 == t1 \div dd
        t0 == (t1 % dd) * LimbBase
        l0 == t0 \div dd
        r  == t0 % dd
    IN  RoundNearestEven(<<l0, l1, l2, l3>>, 2 * r >= dd, 2 * r > dd, lg - 52)

\* The product x * y of two doubles, correctly rounded.
Mul(x, y) ==
    LET a == x.m
        b == y.m
        \* schoolbook columns with the carry run through
        t0 == a[1] * b[1]
        t1 == a[1] * b[2] + a[2] * b[1] + (t0 \div LimbBase)
        t2 == a[1] * b[3] + a[2] * b[2] + a[3] * b[1] + (t1 \div LimbBase)
        t3 == a[1] * b[4] + a[2] * b[3] + a[3] * b[2] + a[4] * b[1]
                 + (t2 \div LimbBase)
        t4 == a[2] * b[4] + a[3] * b[3] + a[4] * b[2] + (t3 \div LimbBase)
        t5 == a[3] * b[4] + a[4] * b[3] + (t4 \div LimbBase)
        t6 == a[4] * b[4] + (t5 \div LimbBase)
        p0 == t0 % LimbBase
        p1 == t1 % LimbBase
        p2 == t2 % LimbBase
        p3 == t3 % LimbBase
        p4 == t4 % LimbBase
        p5 == t5 % LimbBase
        p6 == t6 % LimbBase
        p7 == t6 \div LimbBase
        \* the product is in [2^104, 2^106): 53 bits are kept, the lowest
        \* 52 or 53 are rounded away (k bits of limb p3 and all of p0..p2)
        k  == IF p7 >= 2^7 THEN 11 ELSE 10
        q  == << (p3 \div 2^k) + (p4 % 2^k) * 2^(14 - k),
                 (p4 \div 2^k) + (p5 % 2^k) * 2^(14 - k),
                 (p5 \div 2^k) + (p6 % 2^k) * 2^(14 - k),
                 (p6 \div 2^k) + p7 * 2^(14 - k) >>
        half   == (p3 \div 2^(k - 1)) % 2 = 1
        sticky == (p3 % 2^(k - 1) # 0) \/ p0 # 0 \/ p1 # 0 \/ p2 # 0
    IN  RoundNearestEven(q, half, sticky, x.e + y.e + 42 + k)

\* x < y on doubles.
Less(x, y) ==
    \/ x.e < y.e
    \/ /\ x.e = y.e
       /\ \/ x.m[4] < y.m[4]
          \/ x.m[4] = y.m[4] /\ x.m[3] < y.m[3]
          \/ x.m[4] = y.m[4] /\ x.m[3] = y.m[3] /\ x.m[2] < y.m[2]
          \/ x.m[4] = y.m[4] /\ x.m[3] = y.m[3] /\ x.m[2] = y.m[2]
                /\ x.m[1] < y.m[1]

\* Math.min and Math.max on doubles.
MathMin(x, y) == IF Less(y, x) THEN y ELSE x
MathMax(x, y) == IF Less(x, y) THEN y ELSE x

\* floor(M / 2^s) for a significand M in limbs, 23 <= s <= 55.
FloorShift(m, s) ==
    LET mm == m \o <<0, 0>>
        w  == s \div 14
        b  == s % 14
    IN  (mm[w + 1] \div 2^b)
        + (IF w + 2 <= 4 THEN mm[w + 2] * 2^(14 - b) ELSE 0)
        + (IF w + 3 <= 4 THEN mm[w + 3] * 2^(28 - b) ELSE 0)

\* Math.round of a positive double below 2^30: floor(x + 0.5), that is the
\* nearest integer with a tie going up.
MathRound(x) ==
    LET s == 0 - x.e
    IN  IF s > 53 THEN 0
        ELSE FloorShift(x.m, s) + (FloorShift(x.m, s - 1) % 2)

----------------------------------------------------------------------------
(* The engine's types and tables.                                           *)

Playstyle == {"freestyle", "instaplayer", "rusher", "balanced", "onetap", "sniper"}
PingLevel == {"low", "medium", "high"}
Platform  == {"android", "ios", "unknown"}

\* dpi is "number | null": null is the empty sequence and the number d is <<d>>.
Null == <<>>
Num(d) == <<d>>

\* The six channels, and the scope chain in repair order.
Channels == {"general", "redDot", "scope2x", "scope4x", "awmScope", "freeLook"}

\* The decimal literals of the source, all with two decimals, as doubles;
\* the index is the literal in hundredths.
Literals == [h \in 75..122 |-> ToDouble(h, 100)]

Lit(h) == Literals[h]

\* The base table with the values of awmScope and freeLook exchanged.
BASE_SENSITIVITIES_Exchanged ==
    [general |-> 165, redDot |-> 160, scope2x |-> 145, scope4x |-> 130,
     awmScope |-> 185, freeLook |-> 110]

BASE_SENSITIVITIES ==
    [general |-> 165, redDot |-> 160, scope2x |-> 145, scope4x |-> 130,
     awmScope |-> 110, freeLook |-> 185]

\* The playstyle table with the rows of freestyle and sniper exchanged.
PLAYSTYLE_HUNDREDTHS_Exchanged ==
    [sniper      |-> [general |-> 122, redDot |-> 120, scope2x |-> 115,
                      scope4x |-> 110, awmScope |-> 105, freeLook |-> 108],
     instaplayer |-> [general |-> 118, redDot |-> 115, scope2x |-> 110,
                      scope4x |-> 105, awmScope |-> 100, freeLook |-> 105],
     rusher      |-> [general |-> 112, redDot |-> 108, scope2x |-> 105,
                      scope4x |-> 102, awmScope |-> 98, freeLook |-> 103],
     balanced    |-> [general |-> 103, redDot |-> 103, scope2x |-> 103,
                      scope4x |-> 103, awmScope |-> 103, freeLook |-> 103],
     onetap      |-> [general |-> 100, redDot |-> 97, scope2x |-> 94,
                      scope4x |-> 90, awmScope |-> 85, freeLook |-> 100],
     freestyle   |-> [general |-> 95, redDot |-> 92, scope2x |-> 88,
                      scope4x |-> 82, awmScope |-> 75, freeLook |-> 95]]

\* The playstyle table in hundredths, as written in the source.
PLAYSTYLE_HUNDREDTHS ==
    [freestyle   |-> [general |-> 122, redDot |-> 120, scope2x |-> 115,
                      scope4x |-> 110, awmScope |-> 105, freeLook |-> 108],
     instaplayer |-> [general |-> 118, redDot |-> 115, scope2x |-> 110,
                      scope4x |-> 105, awmScope |-> 100, freeLook |-> 105],
     rusher      |-> [general |-> 112, redDot |-> 108, scope2x |-> 105,
                      scope4x |-> 102, awmScope |-> 98, freeLook |-> 103],
     balanced    |-> [general |-> 103, redDot |-> 103, scope2x |-> 103,
                      scope4x |-> 103, awmScope |-> 103, freeLook |-> 103],
     onetap      |-> [general |-> 100, redDot |-> 97, scope2x |-> 94,
                      scope4x |-> 90, awmScope |-> 85, freeLook |-> 100],
     sniper      |-> [general |-> 95, redDot |-> 92, scope2x |-> 88,
                      scope4x |-> 82, awmScope |-> 75, freeLook |-> 95]]

\* The table as the doubles the engine multiplies with.
PLAYSTYLE_MODIFIERS ==
    [p \in Playstyle |-> [c \in Channels |-> Lit(PLAYSTYLE_HUNDREDTHS[p][c])]]

\* The ping table with the values of low and high exchanged.
PING_HUNDREDTHS_Exchanged == [low |-> 108, medium |-> 100, high |-> 95]

PING_HUNDREDTHS == [low |-> 95, medium |-> 100, high |-> 108]

PING_MODIFIERS == [p \in PingLevel |-> Lit(PING_HUNDREDTHS[p])]

\* The base values as doubles.
BaseDouble == [c \in Channels |-> ToDouble(BASE_SENSITIVITIES[c], 1)]

\* The screen-size steps with < where the source has <=.
ScreenSizeHundredthsExclusive(screenSize) ==
    IF screenSize < 55 THEN 108
    ELSE IF screenSize < 60 THEN 104
    ELSE IF screenSize < 65 THEN 100
    ELSE IF screenSize < 70 THEN 96
    ELSE 92

\* The screen-size steps with a screen size of zero or less sent to the last
\* branch.
ScreenSizeHundredthsPositiveOnly(screenSize) ==
    IF screenSize <= 0 THEN 92
    ELSE IF screenSize <= 55 THEN 108
    ELSE IF screenSize <= 60 THEN 104
    ELSE IF screenSize <= 65 THEN 100
    ELSE IF screenSize <= 70 THEN 96
    ELSE 92

\* screenSize is held in tenths of an inch (65 is 6.5): the comparison of the
\* double nearest to k/10 with the literal 5.5 is the comparison of k with 55.
ScreenSizeHundredths(screenSize) ==
    IF screenSize <= 55 THEN 108
    ELSE IF screenSize <= 60 THEN 104
    ELSE IF screenSize <= 65 THEN 100
    ELSE IF screenSize <= 70 THEN 96
    ELSE 92

getScreenSizeModifier(screenSize) == Lit(ScreenSizeHundredths(screenSize))

\* The refresh-rate steps with < where the source has <=.
RefreshRateHundredthsExclusive(refreshRate) ==
    IF refreshRate < 60 THEN 95
    ELSE IF refreshRate < 90 THEN 100
    ELSE IF refreshRate < 120 THEN 105
    ELSE 108

RefreshRateHundredths(refreshRate) ==
    IF refreshRate <= 60 THEN 95
    ELSE IF refreshRate <= 90 THEN 100
    ELSE IF refreshRate <= 120 THEN 105
    ELSE 108

getRefreshRateModifier(refreshRate) == Lit(RefreshRateHundredths(refreshRate))

\* The DPI modifier with the ratio upside down: dpi / 420.
getDpiModifierInverted(dpi) ==
    IF dpi < 0 THEN Lit(85)
    ELSE MathMax(Lit(85), MathMin(Lit(115), ToDouble(dpi, 420)))

\* Math.max(0.85, Math.min(1.15, 420 / dpi)) for a non-zero integer dpi.  A
\* negative dpi gives a negative ratio, below both literals, hence 0.85.
getDpiModifier(dpi) ==
    IF dpi < 0 THEN Lit(85)
    ELSE MathMax(Lit(85), MathMin(Lit(115), ToDouble(420, dpi)))

getiOSModifier == Lit(92)

\* clampRounded without Math.min(200, ...): the ceiling is lost.
clampRoundedNoCeiling(r) ==
    IF r < 1 THEN 1 ELSE r

\* Math.min(200, Math.max(1, r)) on the integer r that Math.round gave.
clampRounded(r) ==
    IF r > 200 THEN 200 ELSE IF r < 1 THEN 1 ELSE r

\* clamp on a positive double (step 3).  A double of 2^29 or more is not
\* rounded limb by limb: it is above 200 already.
clamp(value) ==
    IF value.e > 0 - 24 THEN clampRounded(2^29)
    ELSE clampRounded(MathRound(value))

\* clamp on a value that is an integer already, which Math.round leaves as
\* it is (the final clamp).
clampInt(value) == clampRounded(value)

\* The platform modifier kept in a variable of the module that is set to 1.0
\* once, when the module loads, and not at each call: a call that takes
\* neither branch reads what the call before it left there.
RECURSIVE StalePlatformModifier(_)
StalePlatformModifier(k) ==
    IF k = 0 THEN Lit(100)
    ELSE LET i == calls[k].input
         IN  IF i.platform = "ios" THEN getiOSModifier
             ELSE IF /\ i.platform = "android"
                     /\ i.dpi # Null
                     /\ i.dpi[1] # 0
                     /\ (i.useCustomDpi \/ i.dpi[1] > 0)
                  THEN getDpiModifier(i.dpi[1])
             ELSE StalePlatformModifier(k - 1)

PlatformModifierStale(inp) ==
    IF inp.platform = "ios" THEN getiOSModifier
    ELSE IF /\ inp.platform = "android"
            /\ inp.dpi # Null
            /\ inp.dpi[1] # 0
            /\ (inp.useCustomDpi \/ inp.dpi[1] > 0)
         THEN getDpiModifier(inp.dpi[1])
    ELSE StalePlatformModifier(Len(calls))

\* The platform modifier with the test useCustomDpi alone where the source
\* has useCustomDpi || dpi > 0.
PlatformModifierCustomOnly(inp) ==
    IF inp.platform = "ios" THEN getiOSModifier
    ELSE IF /\ inp.platform = "android"
            /\ inp.dpi # Null
            /\ inp.dpi[1] # 0
            /\ inp.useCustomDpi
         THEN getDpiModifier(inp.dpi[1])
    ELSE Lit(100)

\* The platform modifier without the test platform === "android": a dpi is
\* used on every platform but ios.
PlatformModifierAnyPlatform(inp) ==
    IF inp.platform = "ios" THEN getiOSModifier
    ELSE IF /\ inp.dpi # Null
            /\ inp.dpi[1] # 0
            /\ (inp.useCustomDpi \/ inp.dpi[1] > 0)
         THEN getDpiModifier(inp.dpi[1])
    ELSE Lit(100)

\* The platform modifier (lines 153-159).  JavaScript's "dpi &&" is false for
\* null and for 0.
PlatformModifier(inp) ==
    IF inp.platform = "ios" THEN getiOSModifier
    ELSE IF /\ inp.platform = "android"
            /\ inp.dpi # Null
            /\ inp.dpi[1] # 0
            /\ (inp.useCustomDpi \/ inp.dpi[1] > 0)
         THEN getDpiModifier(inp.dpi[1])
    ELSE Lit(100)

\* One channel of step 3: the product taken left to right, rounded, clamped.
ChannelValue(c, playstyleModifiers, pingModifier, screenModifier, refreshModifier, platformModifier) ==
    clamp(Mul(Mul(Mul(Mul(Mul(BaseDouble[c], playstyleModifiers[c]),
                          pingModifier),
                      screenModifier),
                  refreshModifier),
              platformModifier))

\* The result object as first built (lines 147-211).
Step3(inp) ==
    LET playstyleModifiers == PLAYSTYLE_MODIFIERS[inp.playstyle]
        pingModifier       == PING_MODIFIERS[inp.pingLevel]
        screenModifier     == getScreenSizeModifier(inp.screenSize)
        refreshModifier    == getRefreshRateModifier(inp.refreshRate)
        platformModifier   == PlatformModifier(inp)
        Value(c) == ChannelValue(c, playstyleModifiers, pingModifier,
                                 screenModifier, refreshModifier,
                                 platformModifier)
    IN  [general  |-> Value("general"),
         redDot   |-> Value("redDot"),
         scope2x  |-> Value("scope2x"),
         scope4x  |-> Value("scope4x"),
         awmScope |-> Value("awmScope"),
         freeLook |-> Value("freeLook")]

\* Repair without its last line: freeLook is not capped at general.
RepairNoFreeLookCap(r) ==
    LET r1 == IF r.redDot >= r.general
              THEN [r EXCEPT !.redDot = r.general - 1] ELSE r
        r2 == IF r1.scope2x >= r1.redDot
              THEN [r1 EXCEPT !.scope2x = r1.redDot - 1] ELSE r1
        r3 == IF r2.scope4x >= r2.scope2x
              THEN [r2 EXCEPT !.scope4x = r2.scope2x - 1] ELSE r2
    IN  IF r3.awmScope >= r3.scope4x
        THEN [r3 EXCEPT !.awmScope = r3.scope4x - 1] ELSE r3

\* Repair with > where the source has >=: a tie is left alone.
RepairStrictTests(r) ==
    LET r1 == IF r.redDot > r.general
              THEN [r EXCEPT !.redDot = r.general - 1] ELSE r
        r2 == IF r1.scope2x > r1.redDot
              THEN [r1 EXCEPT !.scope2x = r1.redDot - 1] ELSE r1
        r3 == IF r2.scope4x > r2.scope2x
              THEN [r2 EXCEPT !.scope4x = r2.scope2x - 1] ELSE r2
        r4 == IF r3.awmScope > r3.scope4x
              THEN [r3 EXCEPT !.awmScope = r3.scope4x - 1] ELSE r3
    IN  IF r4.freeLook > r4.general
        THEN [r4 EXCEPT !.freeLook = r4.general] ELSE r4

\* Repair that lowers a channel to its predecessor, not to one below it.
RepairToPredecessor(r) ==
    LET r1 == IF r.redDot >= r.general
              THEN [r EXCEPT !.redDot = r.general] ELSE r
        r2 == IF r1.scope2x >= r1.redDot
              THEN [r1 EXCEPT !.scope2x = r1.redDot] ELSE r1
        r3 == IF r2.scope4x >= r2.scope2x
              THEN [r2 EXCEPT !.scope4x = r2.scope2x] ELSE r2
        r4 == IF r3.awmScope >= r3.scope4x
              THEN [r3 EXCEPT !.awmScope = r3.scope4x] ELSE r3
    IN  IF r4.freeLook > r4.general
        THEN [r4 EXCEPT !.freeLook = r4.general] ELSE r4

\* Repair with each test reading the step-3 value of the predecessor, not
\* the value the test before it may have written.
RepairNoCascade(r) ==
    LET r1 == IF r.redDot >= r.general
              THEN [r EXCEPT !.redDot = r.general - 1] ELSE r
        r2 == IF r.scope2x >= r.redDot
              THEN [r1 EXCEPT !.scope2x = r.redDot - 1] ELSE r1
        r3 == IF r.scope4x >= r.scope2x
              THEN [r2 EXCEPT !.scope4x = r.scope2x - 1] ELSE r2
        r4 == IF r.awmScope >= r.scope4x
              THEN [r3 EXCEPT !.awmScope = r.scope4x - 1] ELSE r3
    IN  IF r4.freeLook > r4.general
        THEN [r4 EXCEPT !.freeLook = r4.general] ELSE r4

\* The progressive decrease rule (lines 215-219), each test reading the value
\* the test before it may have written.
Repair(r) ==
    LET r1 == IF r.redDot >= r.general
              THEN [r EXCEPT !.redDot = r.general - 1] ELSE r
        r2 == IF r1.scope2x >= r1.redDot
              THEN [r1 EXCEPT !.scope2x = r1.redDot - 1] ELSE r1
        r3 == IF r2.scope4x >= r2.scope2x
              THEN [r2 EXCEPT !.scope4x = r2.scope2x - 1] ELSE r2
        r4 == IF r3.awmScope >= r3.scope4x
              THEN [r3 EXCEPT !.awmScope = r3.scope4x - 1] ELSE r3
    IN  IF r4.freeLook > r4.general
        THEN [r4 EXCEPT !.freeLook = r4.general] ELSE r4

\* The final clamp after adjustments (lines 222-227).
FinalClamp(r) ==
    [general  |-> clampInt(r.general),
     redDot   |-> clampInt(r.redDot),
     scope2x  |-> clampInt(r.scope2x),
     scope4x  |-> clampInt(r.scope4x),
     awmScope |-> clampInt(r.awmScope),
     freeLook |-> clampInt(r.freeLook)]

calculateSensitivity(inp) == FinalClamp(Repair(Step3(inp)))

\* generateExplanation (lines 232-305).  The text is kept as its sections
\* in order, each with the branch taken and the values interpolated into it.
DeviceSection(inp) ==
    IF inp.platform = "ios"
    THEN << [section |-> "device", text |-> "iOS Optimization",
             shown |-> inp.screenSize, level |-> "none"] >>
    ELSE IF inp.platform = "android" /\ inp.dpi # Null /\ inp.dpi[1] # 0
    THEN << [section |-> "device", text |-> "Android DPI Adjustment",
             shown |-> inp.dpi[1],
             level |-> IF inp.dpi[1] > 480 THEN "high"
                       ELSE IF inp.dpi[1] < 360 THEN "low"
                       ELSE "standard"] >>
    ELSE << >>

ScreenSection(inp) ==
    [section |-> "screen", shown |-> inp.screenSize,
     text |-> IF inp.screenSize < 60 THEN "Compact screen detected"
              ELSE IF inp.screenSize > 68 THEN "Large screen detected"
              ELSE "Standard screen size"]

\* The refresh-rate commentary with > where the source has >=.
RefreshSectionExclusive(inp) ==
    [section |-> "refresh", shown |-> inp.refreshRate,
     text |-> IF inp.refreshRate > 120 THEN "High refresh rate"
              ELSE IF inp.refreshRate > 90 THEN "Good refresh rate"
              ELSE "Standard 60Hz display"]

RefreshSection(inp) ==
    [section |-> "refresh", shown |-> inp.refreshRate,
     text |-> IF inp.refreshRate >= 120 THEN "High refresh rate"
              ELSE IF inp.refreshRate >= 90 THEN "Good refresh rate"
              ELSE "Standard 60Hz display"]

\* The summary with the values of the 2x and 4x scopes exchanged.
SummarySectionScopesExchanged(r) ==
    [section |-> "summary",
     lines |-> << <<"General", r.general>>, <<"Red Dot", r.redDot>>,
                  <<"2x Scope", r.scope4x>>, <<"4x Scope", r.scope2x>>,
                  <<"AWM Scope", r.awmScope>>, <<"Free Look", r.freeLook>> >>]

SummarySection(r) ==
    [section |-> "summary",
     lines |-> << <<"General", r.general>>, <<"Red Dot", r.redDot>>,
                  <<"2x Scope", r.scope2x>>, <<"4x Scope", r.scope4x>>,
                  <<"AWM Scope", r.awmScope>>, <<"Free Look", r.freeLook>> >>]

\* The explanation with the refresh-rate commentary before the screen-size
\* commentary.
generateExplanationRefreshFirst(inp, r) ==
    DeviceSection(inp)
    \o << RefreshSection(inp),
          ScreenSection(inp),
          [section |-> "playstyle", key |-> inp.playstyle],
          [section |-> "ping", key |-> inp.pingLevel],
          SummarySection(r),
          [section |-> "testing guide"] >>

generateExplanation(inp, r) ==
    DeviceSection(inp)
    \o << ScreenSection(inp),
          RefreshSection(inp),
          [section |-> "playstyle", key |-> inp.playstyle],
          [section |-> "ping", key |-> inp.pingLevel],
          SummarySection(r),
          [section |-> "testing guide"] >>

----------------------------------------------------------------------------
(* The engine as a state machine.                                           *)

\* Bounds of the input sets.
MaxScreenSteps == 5
MaxRefreshSteps == 4
MaxDpiSteps == 4
MaxCalls == 3

\* Screen sizes in tenths of an inch: 5.5, 6.0, ... (every step boundary and
\* the tablet branch) and 6.7.
ScreenSizes == {67} \cup {50 + 5 * k : k \in 1..MaxScreenSteps}

\* Refresh rates in Hz: 60, 90, 120 (the step boundaries) and 144.
RefreshRates == {144} \cup {30 * k : k \in 2..MaxRefreshSteps}

\* DPI values: 360 (ratio clamped to 1.15), 400, 440, 480, 520 (clamped to
\* 0.85), ...
DpiValues == {360 + 40 * k : k \in 0..MaxDpiSteps}

\* The valid CalculationInput records (lines 14-22).
CalculationInput ==
    [platform : Platform, playstyle : Playstyle, pingLevel : PingLevel,
     screenSize : ScreenSizes, refreshRate : RefreshRates,
     dpi : {Null} \cup {Num(d) : d \in DpiValues}, useCustomDpi : BOOLEAN]

\* The inputs of the runs that invoke the engine several times.
RepeatInputs ==
    [platform : Platform, playstyle : {"balanced", "freestyle"},
     pingLevel : {"medium"}, screenSize : {65}, refreshRate : {60},
     dpi : {Null, Num(440)}, useCustomDpi : {FALSE}]

\* No file under data/ yet, no request handled yet.
NoFile == [readable |-> FALSE, content |-> <<>>]
NoRequest == [method |-> "none"]
NoResponse == [status |-> 0]

PresetsIdle ==
    /\ presetsFile = NoFile
    /\ presetRequest = NoRequest
    /\ presetResponse = NoResponse

DevicesIdle ==
    /\ devicesFile = NoFile
    /\ deviceRequest = NoRequest
    /\ deviceResponse = NoResponse
    /\ deviceLog = <<>>

\* The form as it is first shown (lines 61-77 of sensitivity-form.tsx).
FormIdle ==
    /\ formData = [deviceName |-> "", platform |-> "unknown",
                   playstyle |-> "balanced", pingLevel |-> "medium",
                   screenSize |-> "6.5", refreshRate |-> "60", dpi |-> "440",
                   useCustomDpi |-> FALSE]
    /\ deviceSpecs = Null
    /\ deviceError = Null
    /\ isCheckingDevice = FALSE
    /\ showManualInput = FALSE
    /\ showDpiQuestion = FALSE
    /\ deviceFetch = Null

\* The page as it is first shown (lines 32-34 of the page): nothing
\* generated, no timer pending, nothing sent to the preset route.
PageIdle ==
    /\ isLoading = FALSE
    /\ timers = <<>>
    /\ generatedResult = Null
    /\ presetPosts = <<>>

\* No preset request is being handled.
HandlersIdle == presetHandlers = <<>>

Init ==
    /\ input \in CalculationInput
    /\ result = Null
    /\ explanation = Null
    /\ calls = <<>>
    /\ PresetsIdle
    /\ DevicesIdle
    /\ FormIdle
    /\ PageIdle
    /\ HandlersIdle

InitRepeat ==
    /\ input \in RepeatInputs
    /\ result = Null
    /\ explanation = Null
    /\ calls = <<>>
    /\ PresetsIdle
    /\ DevicesIdle
    /\ FormIdle
    /\ PageIdle
    /\ HandlersIdle

\* The timer callback of handleGenerate: const result =
\* calculateSensitivity(input); const explanation =
\* generateExplanation(input, result).
Generate ==
    /\ result = Null
    /\ LET r == calculateSensitivity(input)
       IN  /\ result' = <<r>>
           /\ explanation' = <<generateExplanation(input, r)>>
    /\ UNCHANGED <<input, calls>>
    /\ UNCHANGED <<presetVars, deviceVars, formVars, pageVars, presetHandlers>>

\* The caller goes on to another invocation, with input i.
Invoke(i) ==
    /\ result # Null
    /\ Len(calls) < MaxCalls - 1
    /\ calls' = Append(calls, [input |-> input, result |-> result[1]])
    /\ input' = i
    /\ result' = Null
    /\ explanation' = Null
    /\ UNCHANGED <<presetVars, deviceVars, formVars, pageVars, presetHandlers>>

Next == Generate

NextRepeat ==
    \/ Generate
    \/ \E i \in RepeatInputs : Invoke(i)

Spec == Init /\ [][Next]_vars

SpecRepeat == InitRepeat /\ [][NextRepeat]_vars

\* Inputs that the types allow and the form never sends: a screen size or a
\* refresh rate that is zero or negative, a dpi that is zero or negative.
\* The three enum fields stay in their declared sets.
LenientInputs ==
    [platform : Platform, playstyle : Playstyle, pingLevel : PingLevel,
     screenSize : {0 - 10, 0, 55, 67}, refreshRate : {0 - 60, 0, 60, 120},
     dpi : {Null, Num(0 - 440), Num(0), Num(440)}, useCustomDpi : BOOLEAN]

InitLenient ==
    /\ input \in LenientInputs
    /\ result = Null
    /\ explanation = Null
    /\ calls = <<>>
    /\ PresetsIdle
    /\ DevicesIdle
    /\ FormIdle
    /\ PageIdle
    /\ HandlersIdle

SpecLenient == InitLenient /\ [][Next]_vars

\* Valid inputs on and on either side of the thresholds of the explanation:
\* screen sizes around 6.0 and 6.8, refresh rates around 90 and 120, dpi
\* around 360 and 480.
ThresholdInputs ==
    [platform : Platform, playstyle : {"balanced", "sniper"},
     pingLevel : {"medium"},
     screenSize : {50, 55, 59, 60, 65, 68, 69, 70, 75},
     refreshRate : {60, 89, 90, 119, 120, 144},
     dpi : {Null} \cup {Num(d) : d \in {300, 359, 360, 420, 480, 481, 520}},
     useCustomDpi : BOOLEAN]

InitThresholds ==
    /\ input \in ThresholdInputs
    /\ result = Null
    /\ explanation = Null
    /\ calls = <<>>
    /\ PresetsIdle
    /\ DevicesIdle
    /\ FormIdle
    /\ PageIdle
    /\ HandlersIdle

SpecThresholds == InitThresholds /\ [][Next]_vars

----------------------------------------------------------------------------
(* The preset route (src/app/api/presets/route.ts), one request at a time.  *)

\* The engine while the routes are at work: the form as it is first shown,
\* nothing generated.
EngineIdle ==
    /\ input = [platform |-> "unknown", playstyle |-> "balanced",
                pingLevel |-> "medium", screenSize |-> 65, refreshRate |-> 60,
                dpi |-> Null, useCustomDpi |-> FALSE]
    /\ result = Null
    /\ explanation = Null
    /\ calls = <<>>

\* The most presets the store is let grow to.
MaxPresets == 3

\* The ids that Date.now() and Math.random() can make up (line 62) and the
\* names a user gives.  Nothing in the route keeps two presets from getting
\* the same id.
PresetIds == {"preset_1", "preset_2", "preset_3"}
PresetNames == {"fast", "steady"}

\* A file that cannot be read or parsed.
Unreadable == [readable |-> FALSE, content |-> <<>>]

\* getPresets (lines 30-37): the presets of the file, none when reading or
\* parsing it fails.
getPresets(file) == IF file.readable THEN file.content ELSE <<>>

\* savePresets (lines 39-42) when the write succeeds.
savePresets(presets) == [readable |-> TRUE, content |-> presets]

\* What a failed write can leave behind: the old file or a broken one.
AfterFailedWrite(file) == {file, Unreadable}

\* The filter of DELETE that keeps the preset with the id and drops the rest.
withoutPresetInverted(presets, id) == SelectSeq(presets, LAMBDA p : p.id = id)

\* data.presets.filter(p => p.id !== id) (line 92).
withoutPreset(presets, id) == SelectSeq(presets, LAMBDA p : p.id # id)

\* GET (lines 44-52).
PresetsGET ==
    /\ presetRequest' = [method |-> "GET"]
    /\ presetResponse' = [status |-> 200, presets |-> getPresets(presetsFile)]
    /\ UNCHANGED presetsFile
    /\ UNCHANGED <<engineVars, deviceVars, formVars, pageVars, presetHandlers>>

\* POST (lines 54-77) with a body that is not JSON: request.json() throws.
PresetsPOSTMalformed ==
    /\ presetRequest' = [method |-> "POST", json |-> FALSE]
    /\ presetResponse' = [status |-> 500, error |-> "Failed to save preset"]
    /\ UNCHANGED presetsFile
    /\ UNCHANGED <<engineVars, deviceVars, formVars, pageVars, presetHandlers>>

\* POST (lines 54-77) with a JSON body; id is the id made up for the preset,
\* written tells whether savePresets succeeds.
PresetsPOST(name, id, written) ==
    /\ Len(getPresets(presetsFile)) < MaxPresets
    /\ presetRequest' = [method |-> "POST", json |-> TRUE, name |-> name]
    /\ LET data == getPresets(presetsFile)
           newPreset == [name |-> name, id |-> id, createdAt |-> "now"]
       IN  IF written
           THEN /\ presetsFile' = savePresets(Append(data, newPreset))
                /\ presetResponse' =
                       [status |-> 200, success |-> TRUE, preset |-> newPreset]
           ELSE /\ presetsFile' \in AfterFailedWrite(presetsFile)
                /\ presetResponse' =
                       [status |-> 500, error |-> "Failed to save preset"]
    /\ UNCHANGED <<engineVars, deviceVars, formVars, pageVars, presetHandlers>>

\* DELETE (lines 79-103); id is searchParams.get("id"): Null, or <<s>>.
PresetsDELETE(id, written) ==
    /\ presetRequest' = [method |-> "DELETE", id |-> id]
    /\ IF id = Null \/ id = <<"">>
       THEN /\ presetResponse' = [status |-> 400, error |-> "Preset ID is required"]
            /\ UNCHANGED presetsFile
       ELSE LET data == withoutPreset(getPresets(presetsFile), id[1])
            IN  IF written
                THEN /\ presetsFile' = savePresets(data)
                     /\ presetResponse' = [status |-> 200, success |-> TRUE]
                ELSE /\ presetsFile' \in AfterFailedWrite(presetsFile)
                     /\ presetResponse' =
                            [status |-> 500, error |-> "Failed to delete preset"]
    /\ UNCHANGED <<engineVars, deviceVars, formVars, pageVars, presetHandlers>>

\* The ids a DELETE is sent with: none, the empty string, the ids of presets
\* and an id that no preset has.
DeleteIds == {Null, <<"">>, <<"preset_0">>} \cup {<<id>> : id \in PresetIds}

InitPresets ==
    /\ EngineIdle
    /\ PresetsIdle
    /\ DevicesIdle
    /\ FormIdle
    /\ PageIdle
    /\ HandlersIdle

NextPresets ==
    \/ PresetsGET
    \/ PresetsPOSTMalformed
    \/ \E name \in PresetNames, id \in PresetIds, written \in BOOLEAN :
           PresetsPOST(name, id, written)
    \/ \E id \in DeleteIds, written \in BOOLEAN : PresetsDELETE(id, written)

SpecPresets == InitPresets /\ [][NextPresets]_vars

----------------------------------------------------------------------------
(* The device-check route (src/app/api/device-check/route.ts), one request  *)
(* at a time.  Names are strings, handled character by character.           *)

UpperCaseLetters == "ABCDEFGHIJKLMNOPQRSTUVWXYZ"
LowerCaseLetters == "abcdefghijklmnopqrstuvwxyz"

Char(s, k) == SubSeq(s, k, k)

LowerChar(ch) ==
    IF \E k \in 1..Len(UpperCaseLetters) : Char(UpperCaseLetters, k) = ch
    THEN Char(LowerCaseLetters,
              CHOOSE k \in 1..Len(UpperCaseLetters) : Char(UpperCaseLetters, k) = ch)
    ELSE ch

\* String.prototype.toLowerCase on the letters A to Z.
RECURSIVE toLowerCase(_)
toLowerCase(s) ==
    IF s = "" THEN ""
    ELSE LowerChar(Char(s, 1)) \o toLowerCase(SubSeq(s, 2, Len(s)))

RECURSIVE trimStart(_)
trimStart(s) ==
    IF s # "" /\ Char(s, 1) = " " THEN trimStart(SubSeq(s, 2, Len(s))) ELSE s

RECURSIVE trimEnd(_)
trimEnd(s) ==
    IF s # "" /\ Char(s, Len(s)) = " " THEN trimEnd(SubSeq(s, 1, Len(s) - 1)) ELSE s

\* String.prototype.trim, the space being the only white space in a name.
trim(s) == trimEnd(trimStart(s))

\* s.includes(t)
includes(s, t) ==
    \E i \in 0..(Len(s) - Len(t)) : SubSeq(s, i + 1, i + Len(t)) = t

\* s.split(/\s+/): the pieces between the runs of spaces, an empty piece
\* before a leading run and after a trailing one.
RECURSIVE splitFrom(_, _, _, _)
splitFrom(s, k, piece, pieces) ==
    IF k > Len(s) THEN Append(pieces, piece)
    ELSE IF Char(s, k) = " "
         THEN IF k > 1 /\ Char(s, k - 1) = " "
              THEN splitFrom(s, k + 1, piece, pieces)
              ELSE splitFrom(s, k + 1, "", Append(pieces, piece))
         ELSE splitFrom(s, k + 1, piece \o Char(s, k), pieces)

split(s) == splitFrom(s, 1, "", <<>>)

\* The names sent, and the names under which the AI service describes a
\* device.
DeviceNames == {"", " ", "ROG 5", "Nova X", "nova", "x nova", "Zed"}
AiDeviceNames == {"Nova X", "Zed 2", "K9"}

\* name.toLowerCase().trim() and its split(/\s+/), computed once for each
\* name.
NormalizedNames ==
    [n \in DeviceNames \cup AiDeviceNames |-> trim(toLowerCase(n))]
normalized(name) == NormalizedNames[name]

WordsOfNames ==
    [n \in {NormalizedNames[m] : m \in DOMAIN NormalizedNames} |-> split(n)]
words(name) == WordsOfNames[name]

\* The cache object as its entries [key, device] in the order of
\* Object.keys, which is the order of insertion for keys that are not
\* numbers.
getDevicesCache(file) == IF file.readable THEN file.content ELSE <<>>

\* cache[key], Null when there is no such key.
Lookup(cache, key) ==
    IF \E k \in 1..Len(cache) : cache[k].key = key
    THEN <<cache[CHOOSE k \in 1..Len(cache) : cache[k].key = key].device>>
    ELSE Null

\* cache[key] = device: an entry with the key is replaced where it stands,
\* a new key goes last.
Store(cache, key, device) ==
    IF \E k \in 1..Len(cache) : cache[k].key = key
    THEN [k \in 1..Len(cache) |->
             IF cache[k].key = key THEN [key |-> key, device |-> device]
             ELSE cache[k]]
    ELSE Append(cache, [key |-> key, device |-> device])

\* saveDeviceToCache (lines 31-42) when the write succeeds.
saveDeviceToCache(device, file) ==
    [readable |-> TRUE,
     content |-> Store(getDevicesCache(file),
                       normalized(device.device_name), device)]

\* brandDefaults (lines 80-103), in the order of the source.
brandDefaults ==
    << [brand |-> "iphone", platform |-> "ios", refresh_rate |-> "60", default_dpi |-> "N/A"],
       [brand |-> "ipad", platform |-> "ios", refresh_rate |-> "60", default_dpi |-> "N/A"],
       [brand |-> "samsung", platform |-> "android", refresh_rate |-> "120", default_dpi |-> "420"],
       [brand |-> "galaxy", platform |-> "android", refresh_rate |-> "120", default_dpi |-> "420"],
       [brand |-> "oneplus", platform |-> "android", refresh_rate |-> "120", default_dpi |-> "480"],
       [brand |-> "redmi", platform |-> "android", refresh_rate |-> "120", default_dpi |-> "440"],
       [brand |-> "poco", platform |-> "android", refresh_rate |-> "120", default_dpi |-> "440"],
       [brand |-> "realme", platform |-> "android", refresh_rate |-> "120", default_dpi |-> "440"],
       [brand |-> "vivo", platform |-> "android", refresh_rate |-> "120", default_dpi |-> "440"],
       [brand |-> "oppo", platform |-> "android", refresh_rate |-> "120", default_dpi |-> "440"],
       [brand |-> "xiaomi", platform |-> "android", refresh_rate |-> "120", default_dpi |-> "460"],
       [brand |-> "pixel", platform |-> "android", refresh_rate |-> "90", default_dpi |-> "420"],
       [brand |-> "google", platform |-> "android", refresh_rate |-> "90", default_dpi |-> "420"],
       [brand |-> "nothing", platform |-> "android", refresh_rate |-> "120", default_dpi |-> "420"],
       [brand |-> "motorola", platform |-> "android", refresh_rate |-> "120", default_dpi |-> "420"],
       [brand |-> "infinix", platform |-> "android", refresh_rate |-> "90", default_dpi |-> "400"],
       [brand |-> "tecno", platform |-> "android", refresh_rate |-> "90", default_dpi |-> "400"],
       [brand |-> "asus", platform |-> "android", refresh_rate |-> "120", default_dpi |-> "440"],
       [brand |-> "rog", platform |-> "android", refresh_rate |-> "165", default_dpi |-> "480"],
       [brand |-> "iqoo", platform |-> "android", refresh_rate |-> "120", default_dpi |-> "450"],
       [brand |-> "huawei", platform |-> "android", refresh_rate |-> "90", default_dpi |-> "420"],
       [brand |-> "honor", platform |-> "android", refresh_rate |-> "90", default_dpi |-> "420"] >>

\* The first of the indices at which a loop's test holds, 0 when there is
\* none: the loops return at the first match.
FirstIndex(hits) ==
    IF hits = {} THEN 0
    ELSE CHOOSE k \in hits : \A j \in hits : k <= j

\* Math.ceil(n * 0.6) for a number of words n from 1 to 11, where the double
\* n * 0.6 is never above the real 6n/10 by enough to reach the next integer.
CeilSixTenths(n) == (6 * n + 9) \div 10

\* The number of words of the input that some word of the key contains or
\* is contained in (lines 68-73).
matchCount(inputWords, keyWords) ==
    Cardinality({w \in 1..Len(inputWords) :
                    \E j \in 1..Len(keyWords) :
                        \/ includes(keyWords[j], inputWords[w])
                        \/ includes(inputWords[w], keyWords[j])})

\* findSimilarDevice (lines 45-118): Null, or <<device>>.
findSimilarDevice(deviceName, cache) ==
    LET normalizedInput == normalized(deviceName)
        inputWords == words(normalizedInput)
        Contains(k) == \/ includes(normalizedInput, cache[k].key)
                       \/ includes(cache[k].key, normalizedInput)
        Partial(k) == matchCount(inputWords, words(cache[k].key))
                          >= CeilSixTenths(Len(inputWords))
        Brand(k) == includes(normalizedInput, brandDefaults[k].brand)
        contained == FirstIndex({k \in 1..Len(cache) : Contains(k)})
        partial == FirstIndex({k \in 1..Len(cache) : Partial(k)})
        brand == FirstIndex({k \in 1..Len(brandDefaults) : Brand(k)})
    IN  IF Lookup(cache, normalizedInput) # Null
        THEN Lookup(cache, normalizedInput)
        ELSE IF contained # 0 THEN <<cache[contained].device>>
        ELSE IF partial # 0 THEN <<cache[partial].device>>
        ELSE IF brand # 0
        THEN << [device_name |-> deviceName,
                 platform |-> brandDefaults[brand].platform,
                 screen_size |-> "6.5",
                 refresh_rate |-> brandDefaults[brand].refresh_rate,
                 default_dpi |-> brandDefaults[brand].default_dpi] >>
        ELSE Null

\* The device of the answer when every method failed (lines 259-265).
UnknownDevice(deviceName) ==
    [device_name |-> deviceName, platform |-> "unknown",
     screen_size |-> "unknown", refresh_rate |-> "unknown",
     default_dpi |-> "unknown"]

\* The resolution with the AI service asked before the fuzzy match.
ResolveAiBeforeFuzzy(deviceName, cache, ai) ==
    LET normalizedName == normalized(deviceName)
        exact == Lookup(cache, normalizedName)
        fuzzyMatch == findSimilarDevice(deviceName, cache)
    IN  IF exact # Null
        THEN [source |-> "cache", device |-> exact[1], log |-> <<"readCache">>]
        ELSE IF ai # Null
        THEN [source |-> "ai", device |-> ai[1],
              log |-> <<"readCache", "queryAI", "readCache", "writeCache">>]
        ELSE IF fuzzyMatch # Null
        THEN [source |-> "cache_fuzzy",
              device |-> [fuzzyMatch[1] EXCEPT !.device_name = deviceName],
              log |-> <<"readCache", "queryAI">>]
        ELSE [source |-> "none", device |-> UnknownDevice(deviceName),
              log |-> <<"readCache", "queryAI">>]

\* POST for a name that passed the test of line 203 (lines 210-266): where
\* the device comes from, the device, and the operations on the cache file
\* and the AI service in order.  ai is what queryOpenRouter returns when it
\* is called: Null, or <<specs>>.
Resolve(deviceName, cache, ai) ==
    LET normalizedName == normalized(deviceName)
        exact == Lookup(cache, normalizedName)
        fuzzyMatch == findSimilarDevice(deviceName, cache)
    IN  IF exact # Null
        THEN [source |-> "cache", device |-> exact[1], log |-> <<"readCache">>]
        ELSE IF fuzzyMatch # Null
        THEN [source |-> "cache_fuzzy",
              device |-> [fuzzyMatch[1] EXCEPT !.device_name = deviceName],
              log |-> <<"readCache">>]
        ELSE IF ai # Null
        THEN [source |-> "ai", device |-> ai[1],
              log |-> <<"readCache", "queryAI", "readCache", "writeCache">>]
        ELSE [source |-> "none", device |-> UnknownDevice(deviceName),
              log |-> <<"readCache", "queryAI">>]

\* The values of body.deviceName: absent, a number, a string.
DeviceNameValues ==
    {[type |-> "undefined"], [type |-> "number"]}
    \cup {[type |-> "string", value |-> n] : n \in DeviceNames}

AiSpecs(name) ==
    [device_name |-> name, platform |-> "android", screen_size |-> "6.7",
     refresh_rate |-> "120", default_dpi |-> "440"]

AiReplies == {Null} \cup {<<AiSpecs(n)>> : n \in AiDeviceNames}

\* POST (lines 198-274) with a body that is not JSON, or is not an object:
\* line 200 or 201 throws.
DeviceCheckMalformed ==
    /\ deviceRequest' = [json |-> FALSE]
    /\ deviceResponse' = [status |-> 500, error |-> "Internal server error"]
    /\ deviceLog' = <<>>
    /\ UNCHANGED devicesFile
    /\ UNCHANGED <<engineVars, presetVars, formVars, pageVars, presetHandlers>>

\* POST (lines 198-274) with a JSON object; ai is the answer the AI service
\* has for the name.  The write of the cache succeeds or fails.
DeviceCheckPOST(deviceName, ai) ==
    /\ deviceRequest' = [json |-> TRUE, deviceName |-> deviceName, ai |-> ai]
    /\ IF deviceName.type # "string" \/ deviceName.value = ""
       THEN /\ deviceResponse' = [status |-> 400, error |-> "Device name is required"]
            /\ deviceLog' = <<>>
            /\ UNCHANGED devicesFile
       ELSE LET out == Resolve(deviceName.value, getDevicesCache(devicesFile), ai)
            IN  /\ deviceResponse' =
                       [status |-> 200, success |-> out.source # "none",
                        source |-> out.source, device |-> out.device]
                /\ deviceLog' = out.log
                /\ IF out.source # "ai" THEN UNCHANGED devicesFile
                   ELSE \/ devicesFile' = saveDeviceToCache(ai[1], devicesFile)
                        \/ devicesFile' \in AfterFailedWrite(devicesFile)
    /\ UNCHANGED <<engineVars, presetVars, formVars, pageVars, presetHandlers>>

InitDevices ==
    /\ EngineIdle
    /\ PresetsIdle
    /\ DevicesIdle
    /\ FormIdle
    /\ PageIdle
    /\ HandlersIdle

NextDevices ==
    \/ DeviceCheckMalformed
    \/ \E deviceName \in DeviceNameValues, ai \in AiReplies :
           DeviceCheckPOST(deviceName, ai)

SpecDevices == InitDevices /\ [][NextDevices]_vars

----------------------------------------------------------------------------
(* The form (src/components/sensitivity-form.tsx): the numbers it reads     *)
(* from its fields.                                                        *)

Digits == "0123456789"

IsDigit(ch) == \E k \in 1..Len(Digits) : Char(Digits, k) = ch

DigitValue(ch) == (CHOOSE k \in 1..Len(Digits) : Char(Digits, k) = ch) - 1

\* The number of digits s starts with.
RECURSIVE DigitsPrefix(_)
DigitsPrefix(s) ==
    IF s # "" /\ IsDigit(Char(s, 1))
    THEN 1 + DigitsPrefix(SubSeq(s, 2, Len(s)))
    ELSE 0

\* The value of a string of digits.
RECURSIVE DigitsValue(_)
DigitsValue(s) ==
    IF s = "" THEN 0
    ELSE 10 * DigitsValue(SubSeq(s, 1, Len(s) - 1)) + DigitValue(Char(s, Len(s)))

\* The sign a numeric string starts with, and the string after the sign.
SignOf(s) == IF s # "" /\ Char(s, 1) = "-" THEN 0 - 1 ELSE 1
Unsigned(s) ==
    IF s # "" /\ (Char(s, 1) = "-" \/ Char(s, 1) = "+")
    THEN SubSeq(s, 2, Len(s))
    ELSE s

\* parseInt(s): leading white space is skipped, then an optional sign and
\* the longest run of digits; NaN (Null here) when there is no digit.
parseInt(s) ==
    LET u == Unsigned(trimStart(s))
        n == DigitsPrefix(u)
    IN  IF n = 0 THEN Null
        ELSE Num(SignOf(trimStart(s)) * DigitsValue(SubSeq(u, 1, n)))

\* parseFloat(s) in tenths: leading white space, an optional sign, digits,
\* and a point followed by digits; NaN (Null here) when there is no digit.
\* The strings of the fields have at most one digit after the point.
parseFloat(s) ==
    LET u == Unsigned(trimStart(s))
        n == DigitsPrefix(u)
        rest == SubSeq(u, n + 1, Len(u))
        point == rest # "" /\ Char(rest, 1) = "."
        frac == IF point THEN SubSeq(rest, 2, Len(rest)) ELSE ""
        m == DigitsPrefix(frac)
        tenth == IF m = 0 THEN 0 ELSE DigitValue(Char(frac, 1))
    IN  IF n = 0 /\ m = 0 THEN Null
        ELSE Num(SignOf(trimStart(s)) * (10 * DigitsValue(SubSeq(u, 1, n)) + tenth))

\* x || d: d replaces zero and NaN and nothing else.
OrDefault(x, d) == IF x = Null \/ x[1] = 0 THEN d ELSE x[1]

\* s.replace("Hz", ""): the first occurrence is taken out.
replaceHz(s) ==
    IF includes(s, "Hz")
    THEN LET i == CHOOSE i \in 0..(Len(s) - 2) :
                      /\ SubSeq(s, i + 1, i + 2) = "Hz"
                      /\ \A j \in 0..(i - 1) : SubSeq(s, j + 1, j + 2) # "Hz"
         IN  SubSeq(s, 1, i) \o SubSeq(s, i + 3, Len(s))
    ELSE s

----------------------------------------------------------------------------
(* The form as a state machine: one action for each handler.  The device    *)
(* check is a fetch, answered in a later step.                              *)

\* What the user types as a device name.
FormDeviceNames == {"", "Nova X"}

\* The devices the device-check route answers with: what the AI service
\* wrote is passed on as it is (route.ts lines 173-175 and 238-246).
FormDevices ==
    { AiSpecs("Nova X"),
      [device_name |-> "iPhone 15", platform |-> "ios",
       screen_size |-> "unknown", refresh_rate |-> "120Hz",
       default_dpi |-> "N/A"],
      [device_name |-> "Zed 2", platform |-> "android",
       screen_size |-> "-6.7", refresh_rate |-> "0", default_dpi |-> "-440"] }

\* The answers to the fetch of handleDeviceCheck: a device, success: false,
\* or a failure of the fetch itself.
FormReplies ==
    {[kind |-> "notFound"], [kind |-> "networkError"]}
    \cup {[kind |-> "device", device |-> d] : d \in FormDevices}

\* What the number inputs, the selects and the option buttons can hold.
\* A number input yields "" for text that is not a number.
TypedScreenSizes == {"", "-5"}
TypedDpis == {"", "500"}
RefreshRateItems == {"60", "144"}
DpiOptions == {"320", "440"}
FormPlaystyles == {"balanced", "sniper"}
FormPingLevels == {"medium", "high"}

\* deviceSpecs?.default_dpi, Null for undefined.
DefaultDpiOf(specs) == IF specs = Null THEN Null ELSE <<specs[1].default_dpi>>

\* The fields after a device was detected (lines 100-117).
FormAfterDevice(fd, device) ==
    [fd EXCEPT
        !.platform = device.platform,
        !.screenSize = IF device.screen_size # "unknown"
                       THEN device.screen_size ELSE "6.5",
        !.refreshRate = IF device.refresh_rate # "unknown"
                        THEN trim(replaceHz(device.refresh_rate)) ELSE "60",
        !.dpi = IF device.default_dpi # "unknown" /\ device.default_dpi # "N/A"
                THEN device.default_dpi ELSE "440"]

\* onChange of the device name input (line 174).
ChangeDeviceName(name) ==
    /\ formData' = [formData EXCEPT !.deviceName = name]
    /\ UNCHANGED <<deviceSpecs, deviceError, isCheckingDevice,
                   showManualInput, showDpiQuestion, deviceFetch>>
    /\ UNCHANGED <<engineVars, presetVars, deviceVars, pageVars, presetHandlers>>

\* handleDeviceCheck up to its await (lines 79-96); the button is disabled
\* while a check is under way (line 185).
handleDeviceCheck ==
    /\ ~isCheckingDevice
    /\ IF trim(formData.deviceName) = ""
       THEN /\ deviceError' = <<"Please enter your device name">>
            /\ UNCHANGED <<deviceSpecs, isCheckingDevice, showDpiQuestion,
                           deviceFetch>>
       ELSE /\ isCheckingDevice' = TRUE
            /\ deviceError' = Null
            /\ deviceSpecs' = Null
            /\ showDpiQuestion' = FALSE
            /\ deviceFetch' = <<formData.deviceName>>
    /\ UNCHANGED <<formData, showManualInput>>
    /\ UNCHANGED <<engineVars, presetVars, deviceVars, pageVars, presetHandlers>>

\* handleDeviceCheck from its await on (lines 97-133).
DeviceCheckAnswered(reply) ==
    /\ deviceFetch # Null
    /\ deviceFetch' = Null
    /\ isCheckingDevice' = FALSE
    /\ IF reply.kind = "device"
       THEN /\ deviceSpecs' = <<reply.device>>
            /\ formData' = FormAfterDevice(formData, reply.device)
            /\ showDpiQuestion' =
                   IF reply.device.platform = "android" THEN TRUE
                   ELSE showDpiQuestion
            /\ showManualInput' = FALSE
            /\ UNCHANGED deviceError
       ELSE /\ deviceError' =
                   IF reply.kind = "notFound"
                   THEN <<"Could not identify device. Please enter specs manually.">>
                   ELSE <<"Failed to check device. Please enter specs manually.">>
            /\ showManualInput' = TRUE
            /\ UNCHANGED <<formData, deviceSpecs, showDpiQuestion>>
    /\ UNCHANGED <<engineVars, presetVars, deviceVars, pageVars, presetHandlers>>

\* The dpi question is on the page (line 236).
DpiQuestionShown == showDpiQuestion /\ formData.platform = "android"

\* The buttons and the input of the dpi question (lines 257, 284, 292).
ChooseDpiOption(v) ==
    /\ DpiQuestionShown
    /\ formData' = [formData EXCEPT !.dpi = v,
                                    !.useCustomDpi = <<v>> # DefaultDpiOf(deviceSpecs)]
    /\ UNCHANGED <<deviceSpecs, deviceError, isCheckingDevice,
                   showManualInput, showDpiQuestion, deviceFetch>>
    /\ UNCHANGED <<engineVars, presetVars, deviceVars, pageVars, presetHandlers>>

TypeCustomDpi(v) ==
    /\ DpiQuestionShown
    /\ formData' = [formData EXCEPT !.dpi = v, !.useCustomDpi = TRUE]
    /\ UNCHANGED <<deviceSpecs, deviceError, isCheckingDevice,
                   showManualInput, showDpiQuestion, deviceFetch>>
    /\ UNCHANGED <<engineVars, presetVars, deviceVars, pageVars, presetHandlers>>

ResetDpi ==
    /\ DpiQuestionShown
    /\ formData' =
           [formData EXCEPT
               !.dpi = IF DefaultDpiOf(deviceSpecs) \in {Null, <<"">>}
                       THEN "440" ELSE DefaultDpiOf(deviceSpecs)[1],
               !.useCustomDpi = FALSE]
    /\ UNCHANGED <<deviceSpecs, deviceError, isCheckingDevice,
                   showManualInput, showDpiQuestion, deviceFetch>>
    /\ UNCHANGED <<engineVars, presetVars, deviceVars, pageVars, presetHandlers>>

\* The manual section (lines 307-414): platform, screen size, refresh rate,
\* and for android the dpi buttons and the dpi input.
ChangePlatform(value) ==
    /\ showManualInput
    /\ formData' = [formData EXCEPT !.platform = value]
    /\ UNCHANGED <<deviceSpecs, deviceError, isCheckingDevice,
                   showManualInput, showDpiQuestion, deviceFetch>>
    /\ UNCHANGED <<engineVars, presetVars, deviceVars, pageVars, presetHandlers>>

TypeScreenSize(v) ==
    /\ showManualInput
    /\ formData' = [formData EXCEPT !.screenSize = v]
    /\ UNCHANGED <<deviceSpecs, deviceError, isCheckingDevice,
                   showManualInput, showDpiQuestion, deviceFetch>>
    /\ UNCHANGED <<engineVars, presetVars, deviceVars, pageVars, presetHandlers>>

ChangeRefreshRate(value) ==
    /\ showManualInput
    /\ formData' = [formData EXCEPT !.refreshRate = value]
    /\ UNCHANGED <<deviceSpecs, deviceError, isCheckingDevice,
                   showManualInput, showDpiQuestion, deviceFetch>>
    /\ UNCHANGED <<engineVars, presetVars, deviceVars, pageVars, presetHandlers>>

ChangeManualDpi(v) ==
    /\ showManualInput
    /\ formData.platform = "android"
    /\ formData' = [formData EXCEPT !.dpi = v]
    /\ UNCHANGED <<deviceSpecs, deviceError, isCheckingDevice,
                   showManualInput, showDpiQuestion, deviceFetch>>
    /\ UNCHANGED <<engineVars, presetVars, deviceVars, pageVars, presetHandlers>>

\* The playstyle and the ping buttons (lines 427, 457).
ChangePlaystyle(key) ==
    /\ formData' = [formData EXCEPT !.playstyle = key]
    /\ UNCHANGED <<deviceSpecs, deviceError, isCheckingDevice,
                   showManualInput, showDpiQuestion, deviceFetch>>
    /\ UNCHANGED <<engineVars, presetVars, deviceVars, pageVars, presetHandlers>>

ChangePingLevel(value) ==
    /\ formData' = [formData EXCEPT !.pingLevel = value]
    /\ UNCHANGED <<deviceSpecs, deviceError, isCheckingDevice,
                   showManualInput, showDpiQuestion, deviceFetch>>
    /\ UNCHANGED <<engineVars, presetVars, deviceVars, pageVars, presetHandlers>>

\* A number input lets the form be submitted when it is empty or holds a
\* number from min to max, both in tenths.
InputValid(s, min, max) ==
    s = "" \/ (parseFloat(s) # Null /\ parseFloat(s)[1] \in min..max)

\* The number inputs on the page are valid (lines 279-284, 333-340, 402-407):
\* the browser does not submit the form otherwise.
InputsValid ==
    /\ DpiQuestionShown => InputValid(formData.dpi, 1200, 6400)
    /\ showManualInput => InputValid(formData.screenSize, 40, 130)
    /\ (showManualInput /\ formData.platform = "android")
           => InputValid(formData.dpi, 1200, 6400)

\* The data handleSubmit hands to onGenerate (lines 139-148); the screen size
\* in tenths of an inch.
SubmittedData(fd) ==
    [deviceName |-> IF fd.deviceName = "" THEN "Unknown Device" ELSE fd.deviceName,
     platform |-> fd.platform,
     playstyle |-> fd.playstyle,
     pingLevel |-> fd.pingLevel,
     screenSize |-> OrDefault(parseFloat(fd.screenSize), 65),
     refreshRate |-> OrDefault(parseInt(fd.refreshRate), 60),
     dpi |-> IF fd.platform = "android"
             THEN Num(OrDefault(parseInt(fd.dpi), 440)) ELSE Null,
     useCustomDpi |-> fd.useCustomDpi]

\* handleSubmit (lines 136-149) and the handleGenerate of the page it calls
\* (part_000 lines 36-47): the page starts to load and sets a timer.  The
\* submit button is disabled while the page loads (line 480).
handleSubmit ==
    /\ ~isLoading
    /\ InputsValid
    /\ isLoading' = TRUE
    /\ timers' = Append(timers, SubmittedData(formData))
    /\ UNCHANGED <<generatedResult, presetPosts>>
    /\ UNCHANGED <<engineVars, presetVars, deviceVars, formVars, presetHandlers>>

InitForm ==
    /\ EngineIdle
    /\ PresetsIdle
    /\ DevicesIdle
    /\ FormIdle
    /\ PageIdle
    /\ HandlersIdle

NextForm ==
    \/ \E name \in FormDeviceNames : ChangeDeviceName(name)
    \/ handleDeviceCheck
    \/ \E reply \in FormReplies : DeviceCheckAnswered(reply)
    \/ \E v \in DpiOptions : ChooseDpiOption(v)
    \/ \E v \in TypedDpis : TypeCustomDpi(v)
    \/ ResetDpi
    \/ \E value \in {"android", "ios"} : ChangePlatform(value)
    \/ \E v \in TypedScreenSizes : TypeScreenSize(v)
    \/ \E value \in RefreshRateItems : ChangeRefreshRate(value)
    \/ \E v \in DpiOptions \cup TypedDpis : ChangeManualDpi(v)
    \/ handleSubmit

SpecForm == InitForm /\ [][NextForm]_vars

----------------------------------------------------------------------------
(* The page (src/unnamed/part_000, Home): the form is submitted, the timer  *)
(* of handleGenerate runs the engine, handleSavePreset sends what the page  *)
(* shows to the preset route.                                               *)

\* The most presets a run of the page saves.
MaxPosts == 2

\* The name the user gives a preset on the page.
PagePresetNames == {"fast"}

\* The form right after the device check detected the device.
Detected(device) ==
    /\ formData =
           FormAfterDevice(
               [deviceName |-> "Nova X", platform |-> "unknown",
                playstyle |-> "balanced", pingLevel |-> "medium",
                screenSize |-> "6.5", refreshRate |-> "60", dpi |-> "440",
                useCustomDpi |-> FALSE],
               device)
    /\ deviceSpecs = <<device>>
    /\ deviceError = Null
    /\ isCheckingDevice = FALSE
    /\ showManualInput = FALSE
    /\ showDpiQuestion = (device.platform = "android")
    /\ deviceFetch = Null

\* The CalculationInput the timer callback builds from the data (lines
\* 49-57).
InputOf(data) ==
    [platform |-> data.platform, playstyle |-> data.playstyle,
     pingLevel |-> data.pingLevel, screenSize |-> data.screenSize,
     refreshRate |-> data.refreshRate, dpi |-> data.dpi,
     useCustomDpi |-> data.useCustomDpi]

\* The deviceInfo of the page (lines 65-71).
DeviceInfoOf(data) ==
    [deviceName |-> data.deviceName, platform |-> data.platform,
     playstyle |-> data.playstyle, pingLevel |-> data.pingLevel,
     dpi |-> data.dpi]

\* The timer callback of handleGenerate (lines 48-76), for the oldest timer.
handleGenerateTimeout ==
    /\ timers # <<>>
    /\ LET data == Head(timers)
           in == InputOf(data)
           r == calculateSensitivity(in)
           e == generateExplanation(in, r)
       IN  /\ input' = in
           /\ result' = <<r>>
           /\ explanation' = <<e>>
           /\ generatedResult' =
                  <<[result |-> r, explanation |-> e,
                     deviceInfo |-> DeviceInfoOf(data), input |-> in]>>
    /\ timers' = Tail(timers)
    /\ isLoading' = FALSE
    /\ UNCHANGED <<calls, presetPosts>>
    /\ UNCHANGED <<presetVars, deviceVars, formVars, presetHandlers>>

\* The body with the dpi of the form's default instead of the dpi that was
\* calculated with.
PresetBodyDefaultDpi(name, shown) ==
    [name |-> name,
     device |-> shown.deviceInfo.deviceName,
     platform |-> shown.deviceInfo.platform,
     playstyle |-> shown.deviceInfo.playstyle,
     ping |-> shown.deviceInfo.pingLevel,
     dpi |-> Null,
     sensitivities |-> shown.result]

\* The body of the POST (lines 86-94).
PresetBody(name, shown) ==
    [name |-> name,
     device |-> shown.deviceInfo.deviceName,
     platform |-> shown.deviceInfo.platform,
     playstyle |-> shown.deviceInfo.playstyle,
     ping |-> shown.deviceInfo.pingLevel,
     dpi |-> shown.deviceInfo.dpi,
     sensitivities |-> shown.result]

\* handleSavePreset (lines 79-100): nothing is sent while nothing was
\* generated.
handleSavePreset(name) ==
    /\ Len(presetPosts) < MaxPosts
    /\ IF generatedResult = Null
       THEN UNCHANGED presetPosts
       ELSE presetPosts' =
                Append(presetPosts, PresetBody(name, generatedResult[1]))
    /\ UNCHANGED <<isLoading, timers, generatedResult>>
    /\ UNCHANGED <<engineVars, presetVars, deviceVars, formVars, presetHandlers>>

InitPage ==
    /\ EngineIdle
    /\ PresetsIdle
    /\ DevicesIdle
    /\ \/ FormIdle
       \/ \E device \in FormDevices : Detected(device)
    /\ PageIdle
    /\ HandlersIdle

NextPage ==
    \/ \E key \in FormPlaystyles : ChangePlaystyle(key)
    \/ \E value \in FormPingLevels : ChangePingLevel(value)
    \/ handleSubmit
    \/ handleGenerateTimeout
    \/ \E name \in PagePresetNames : handleSavePreset(name)

SpecPage == InitPage /\ [][NextPage]_vars

----------------------------------------------------------------------------
(* The preset route with requests handled side by side: a handler reads the *)
(* file at one await (getPresets) and writes it at a later one              *)
(* (savePresets); the steps of other handlers come in between.              *)

\* The most requests of one run.
MaxHandlers == 3

\* The id made up for the preset of the k-th request (line 62).
PresetIdOf(k) == "preset_" \o Char(Digits, k + 1)

\* POST up to the end of getPresets (lines 54-58), with the preset added to
\* what was read (lines 60-66).
PresetsPOSTRead(name) ==
    /\ Len(presetHandlers) < MaxHandlers
    /\ LET id == PresetIdOf(Len(presetHandlers) + 1)
           newPreset == [name |-> name, id |-> id, createdAt |-> "now"]
       IN  presetHandlers' =
               Append(presetHandlers,
                      [method |-> "POST", id |-> id, pc |-> "write",
                       data |-> Append(getPresets(presetsFile), newPreset),
                       status |-> 0])
    /\ UNCHANGED <<presetVars, engineVars, deviceVars, formVars, pageVars>>

\* DELETE with an id up to the end of getPresets (lines 79-90), with the
\* preset filtered out of what was read (line 92).
PresetsDELETERead(id) ==
    /\ Len(presetHandlers) < MaxHandlers
    /\ presetHandlers' =
           Append(presetHandlers,
                  [method |-> "DELETE", id |-> id, pc |-> "write",
                   data |-> withoutPreset(getPresets(presetsFile), id),
                   status |-> 0])
    /\ UNCHANGED <<presetVars, engineVars, deviceVars, formVars, pageVars>>

\* savePresets and the response of the h-th handler (lines 67-76, 93-102):
\* the write succeeds, or it fails and the handler answers 500.
PresetsWrite(h) ==
    /\ h \in 1..Len(presetHandlers)
    /\ presetHandlers[h].pc = "write"
    /\ \/ /\ presetsFile' = savePresets(presetHandlers[h].data)
          /\ presetHandlers' =
                 [presetHandlers EXCEPT ![h].pc = "done", ![h].status = 200]
       \/ /\ presetsFile' \in AfterFailedWrite(presetsFile)
          /\ presetHandlers' =
                 [presetHandlers EXCEPT ![h].pc = "done", ![h].status = 500]
    /\ UNCHANGED <<presetRequest, presetResponse>>
    /\ UNCHANGED <<engineVars, deviceVars, formVars, pageVars>>

InitHandlers ==
    /\ EngineIdle
    /\ PresetsIdle
    /\ DevicesIdle
    /\ FormIdle
    /\ PageIdle
    /\ HandlersIdle

NextHandlers ==
    \/ \E name \in PresetNames : PresetsPOSTRead(name)
    \/ \E k \in 1..MaxHandlers : PresetsDELETERead(PresetIdOf(k))
    \/ \E h \in 1..MaxHandlers : PresetsWrite(h)

SpecHandlers == InitHandlers /\ [][NextHandlers]_vars

----------------------------------------------------------------------------
(* Properties of calculateSensitivity.  Every record of CalculationInput is *)
(* a valid input.                                                           *)

\* The scope chain, in the order of the repair pass.
ScopeChain == <<"general", "redDot", "scope2x", "scope4x", "awmScope">>

\* C1: for every valid input, each of the six fields returned by
\* calculateSensitivity is an integer in [1, 200].
C1_ResultInRange ==
    result # Null => \A c \in Channels : result[1][c] \in 1..200

\* C1's case: a product above 200 was clamped to the ceiling.
C1_Witness ==
    /\ result # Null
    /\ result[1].general = 200
    /\ result[1].awmScope < 200

\* C2: for every valid input, general >= redDot >= scope2x >= scope4x >=
\* awmScope, two adjacent channels being equal only if both are 1, and
\* freeLook <= general, so that general is the maximum of the six.
C2_Ordering ==
    result # Null =>
        LET r == result[1]
        IN  /\ \A k \in 1..4 :
                  /\ r[ScopeChain[k]] >= r[ScopeChain[k + 1]]
                  /\ r[ScopeChain[k]] = r[ScopeChain[k + 1]]
                        => (r[ScopeChain[k]] = 1 /\ r[ScopeChain[k + 1]] = 1)
            /\ r.freeLook <= r.general
            /\ \A c \in Channels : r[c] <= r.general

\* C2's case: freeLook came out of step 3 above general and was capped.
C2_Witness ==
    /\ result # Null
    /\ Step3(input).freeLook > Step3(input).general
    /\ result[1].freeLook = result[1].general

\* C3: for every valid input, the result is strictly descending along the
\* scope chain: general > redDot > scope2x > scope4x > awmScope.
C3_StrictlyDescending ==
    result # Null =>
        \A k \in 1..4 : result[1][ScopeChain[k]] > result[1][ScopeChain[k + 1]]

\* C3's case: three channels left step 3 tied at the ceiling and were spread.
C3_Witness ==
    /\ result # Null
    /\ Step3(input).general = 200
    /\ Step3(input).redDot = 200
    /\ Step3(input).scope2x = 200
    /\ result[1].general = 200
    /\ result[1].redDot = 199
    /\ result[1].scope2x = 198

\* C5: for every input whose step-3 redDot is greater than or equal to its
\* step-3 general, calculateSensitivity returns redDot = general - 1.
C5_TieRepaired ==
    result # Null =>
        LET s3 == Step3(input)
        IN  s3.redDot >= s3.general => result[1].redDot = result[1].general - 1

\* C5's case: redDot left step 3 equal to general.
C5_Witness ==
    /\ result # Null
    /\ Step3(input).redDot = Step3(input).general
    /\ result[1].redDot = result[1].general - 1

\* The second scenario of the specification.
Scenario7 ==
    [platform |-> "android", playstyle |-> "sniper", pingLevel |-> "low",
     screenSize |-> 65, refreshRate |-> 144, dpi |-> Num(440),
     useCustomDpi |-> FALSE]

\* C7: for every valid input the returned awmScope is at least 1 and no
\* other channel, freeLook included, is less than it.
C7_AwmSmallest ==
    result # Null =>
        /\ result[1].awmScope >= 1
        /\ \A c \in Channels : result[1].awmScope <= result[1][c]

\* C7's case: the scenario was computed, with the 420/440 modifier unclamped.
C7_Witness ==
    /\ input = Scenario7
    /\ result # Null
    /\ Less(Lit(85), PlatformModifier(input))
    /\ Less(PlatformModifier(input), Lit(115))
    /\ result[1].awmScope < result[1].freeLook

\* The algorithm of the specification in exact arithmetic.  A natural number
\* is kept as <<h, l1, l0>>, standing for h * 10^8 + l1 * 10^4 + l0.
SpecTimes(x, m) ==
    LET t0 == x[3] * m
        t1 == x[2] * m + (t0 \div 10^4)
    IN  << x[1] * m + (t1 \div 10^4), t1 % 10^4, t0 % 10^4 >>

SpecBase ==
    [general |-> 165, redDot |-> 160, scope2x |-> 145, scope4x |-> 130,
     awmScope |-> 110, freeLook |-> 185]

SpecPing == [low |-> 95, medium |-> 100, high |-> 108]

SpecScreen(screenSize) ==
    CASE screenSize <= 55 -> 108
      [] screenSize > 55 /\ screenSize <= 60 -> 104
      [] screenSize > 60 /\ screenSize <= 65 -> 100
      [] screenSize > 65 /\ screenSize <= 70 -> 96
      [] screenSize > 70 -> 92

SpecRefresh(refreshRate) ==
    CASE refreshRate <= 60 -> 95
      [] refreshRate > 60 /\ refreshRate <= 90 -> 100
      [] refreshRate > 90 /\ refreshRate <= 120 -> 105
      [] refreshRate > 120 -> 108

\* The platform modifier as a fraction <<numerator, denominator>>:
\* ios 0.92, android with dpi > 0 clamp(420/dpi, 0.85, 1.15), otherwise 1.
SpecPlatform(i) ==
    IF i.platform = "ios" THEN <<92, 100>>
    ELSE IF i.platform = "android" /\ i.dpi # Null /\ i.dpi[1] > 0
         THEN IF 420 * 100 < 85 * i.dpi[1] THEN <<85, 100>>
              ELSE IF 420 * 100 > 115 * i.dpi[1] THEN <<115, 100>>
              ELSE <<420, i.dpi[1]>>
    ELSE <<1, 1>>

\* Twice the product of channel c, over 10^8 and over the denominator of the
\* platform modifier.
SpecTwiceProduct(i, c) ==
    SpecTimes(SpecTimes(SpecTimes(SpecTimes(SpecTimes(SpecTimes(
        <<0, 0, SpecBase[c]>>, PLAYSTYLE_HUNDREDTHS[i.playstyle][c]),
        SpecPing[i.pingLevel]), SpecScreen(i.screenSize)),
        SpecRefresh(i.refreshRate)), SpecPlatform(i)[1]), 2)

\* The exact product of channel c is at least k/2, and at most k/2.
SpecAtLeastHalves(i, c, k) ==
    SpecTwiceProduct(i, c)[1] >= k * SpecPlatform(i)[2]

SpecAtMostHalves(i, c, k) ==
    LET p == SpecTwiceProduct(i, c)
    IN  \/ p[1] < k * SpecPlatform(i)[2]
        \/ p[1] = k * SpecPlatform(i)[2] /\ p[2] = 0 /\ p[3] = 0

\* v is an integer nearest to the exact product of channel c.
SpecIsNearest(i, c, v) ==
    SpecAtLeastHalves(i, c, 2 * v - 1) /\ SpecAtMostHalves(i, c, 2 * v + 1)

\* v is the exact product of channel c rounded to a nearest integer and
\* clamped to [1, 200].
SpecIsStep3(i, c, v) ==
    \/ v = 200 /\ SpecAtLeastHalves(i, c, 399)
    \/ v = 1 /\ SpecAtMostHalves(i, c, 3)
    \/ v \in 1..200 /\ SpecIsNearest(i, c, v)

SpecClamp(v) == IF v < 1 THEN 1 ELSE IF v > 200 THEN 200 ELSE v

\* The ordering repair pass in the order redDot, scope2x, scope4x, awmScope,
\* freeLook, and the final clamp.
SpecRepairAndClamp(s) ==
    LET Lowered(predecessor, v) ==
            IF v >= predecessor THEN predecessor - 1 ELSE v
        redDot   == Lowered(s.general, s.redDot)
        scope2x  == Lowered(redDot, s.scope2x)
        scope4x  == Lowered(scope2x, s.scope4x)
        awmScope == Lowered(scope4x, s.awmScope)
        freeLook == IF s.freeLook > s.general THEN s.general ELSE s.freeLook
    IN  [general |-> SpecClamp(s.general), redDot |-> SpecClamp(redDot),
         scope2x |-> SpecClamp(scope2x), scope4x |-> SpecClamp(scope4x),
         awmScope |-> SpecClamp(awmScope), freeLook |-> SpecClamp(freeLook)]

\* C4: for every valid input, calculateSensitivity returns what the
\* five-step algorithm of the specification returns: each channel is the
\* product base x playstyle x ping x screen x refresh x platform modifier
\* (the tables and steps as the specification gives them) rounded to a
\* nearest integer and clamped to [1, 200], followed by the ordering repair
\* pass and the final clamp.
C4_SpecifiedAlgorithm ==
    result # Null =>
        LET s3 == Step3(input)
        IN  /\ \A c \in Channels : SpecIsStep3(input, c, s3[c])
            /\ result[1] = SpecRepairAndClamp(s3)

\* C4's case: a product that is exactly half way between two integers (110 x
\* 1.0 x 1.0 x 1.0 x 1.0 x 1.15 = 126.5), of which the engine returns one.
C4_Witness ==
    /\ result # Null
    /\ input.platform = "android"
    /\ SpecIsNearest(input, "awmScope", result[1].awmScope)
    /\ SpecIsNearest(input, "awmScope", result[1].awmScope + 1)
    /\ result[1].awmScope = Step3(input).awmScope

\* The first scenario of the specification.
Scenario6 ==
    [platform |-> "ios", playstyle |-> "balanced", pingLevel |-> "medium",
     screenSize |-> 67, refreshRate |-> 60, dpi |-> Null,
     useCustomDpi |-> FALSE]

\* C6 as stated: for the first scenario calculateSensitivity returns
\* general = 142.
C6_General142 ==
    (input = Scenario6 /\ result # Null) => result[1].general = 142

\* C6, amended: for the first scenario calculateSensitivity returns
\* general = 143, which is 165 x 1.03 x 1.0 x 0.96 x 0.95 x 0.92 = 142.595...
\* rounded to the nearest integer.
C6_General143 ==
    (input = Scenario6 /\ result # Null) =>
        /\ result[1].general = 143
        /\ SpecIsNearest(input, "general", 143)

\* C6's case: the first scenario was computed.
C6_Witness ==
    /\ input = Scenario6
    /\ result # Null
    /\ ScreenSizeHundredths(input.screenSize) = 96
    /\ RefreshRateHundredths(input.refreshRate) = 95

\* The general value returned for the input at hand with its pingLevel, or
\* its playstyle, replaced.
GeneralWithPing(p) ==
    calculateSensitivity([input EXCEPT !.pingLevel = p]).general

GeneralWithPlaystyle(p) ==
    calculateSensitivity([input EXCEPT !.playstyle = p]).general

PingRank == [low |-> 1, medium |-> 2, high |-> 3]

\* C8: all other fields fixed, the returned general value never decreases as
\* pingLevel goes low -> medium -> high.
C8_PingMonotone ==
    result # Null =>
        \A p \in PingLevel :
            PingRank[input.pingLevel] < PingRank[p]
                => result[1].general <= GeneralWithPing(p)

\* C8's case: a low-ping result below the medium one, below the high one.
C8_Witness ==
    /\ result # Null
    /\ input.pingLevel = "low"
    /\ result[1].general < GeneralWithPing("medium")
    /\ GeneralWithPing("medium") < GeneralWithPing("high")

\* C9: all other fields fixed, the general value returned for freestyle is
\* greater than or equal to the one returned for sniper.
C9_FreestyleAboveSniper ==
    (result # Null /\ input.playstyle = "sniper")
        => GeneralWithPlaystyle("freestyle") >= result[1].general

\* C9's case: a sniper result, and the freestyle one above it.
C9_Witness ==
    /\ result # Null
    /\ input.playstyle = "sniper"
    /\ GeneralWithPlaystyle("freestyle") > result[1].general

----------------------------------------------------------------------------
(* Properties at the edges of the input domain.                             *)

\* The same call on the same input with platform "unknown".
AsUnknown(inp) == calculateSensitivity([inp EXCEPT !.platform = "unknown"])

\* C11: on android, a dpi that is absent, zero or negative leaves the platform
\* modifier at 1.0 whatever useCustomDpi is, so the result is the one that
\* platform "unknown" gives for the same other fields.
C11_NonPositiveDpiIgnored ==
    (/\ result # Null
     /\ input.platform = "android"
     /\ (input.dpi = Null \/ input.dpi[1] <= 0))
    => /\ PlatformModifier(input) = Lit(100)
       /\ result[1] = AsUnknown(input)

\* The values at which getScreenSizeModifier (in tenths of an inch) and
\* getRefreshRateModifier change branch.
ScreenBoundaries == {55, 60, 65, 70}
RefreshBoundaries == {60, 90, 120}

Smaller(a, b) == IF a <= b THEN a ELSE b
Larger(a, b) == IF a >= b THEN a ELSE b

\* The general channel of the input with the screen-size and refresh-rate
\* modifiers given in hundredths.  No later step changes general.
GeneralWith(inp, screenH, refreshH) ==
    ChannelValue("general", PLAYSTYLE_MODIFIERS[inp.playstyle],
                 PING_MODIFIERS[inp.pingLevel], Lit(screenH), Lit(refreshH),
                 PlatformModifier(inp))

\* C12 as stated: at a step boundary of screenSize or of refreshRate the
\* modifier applied is the numerically smaller one of the two branches that
\* meet there.
C12_BoundaryTakesSmaller ==
    result # Null =>
        LET s == input.screenSize
            r == input.refreshRate
        IN  /\ s \in ScreenBoundaries =>
                ScreenSizeHundredths(s) =
                    Smaller(ScreenSizeHundredths(s - 1), ScreenSizeHundredths(s + 1))
            /\ r \in RefreshBoundaries =>
                RefreshRateHundredths(r) =
                    Smaller(RefreshRateHundredths(r - 1), RefreshRateHundredths(r + 1))

\* C12, amended: at a step boundary the modifier applied is the one of the
\* branch that ends there (the branch of the values just below it).  For
\* refreshRate that is the smaller of the two modifiers that meet, for
\* screenSize it is the larger; general is computed with these modifiers.
C12_BoundaryTakesBranchBelow ==
    result # Null =>
        LET s == input.screenSize
            r == input.refreshRate
            sH == ScreenSizeHundredths(IF s \in ScreenBoundaries THEN s - 1 ELSE s)
            rH == RefreshRateHundredths(IF r \in RefreshBoundaries THEN r - 1 ELSE r)
        IN  /\ s \in ScreenBoundaries =>
                /\ ScreenSizeHundredths(s) = sH
                /\ sH = Larger(ScreenSizeHundredths(s - 1), ScreenSizeHundredths(s + 1))
                /\ sH > ScreenSizeHundredths(s + 1)
            /\ r \in RefreshBoundaries =>
                /\ RefreshRateHundredths(r) = rH
                /\ rH = Smaller(RefreshRateHundredths(r - 1), RefreshRateHundredths(r + 1))
                /\ rH < RefreshRateHundredths(r + 1)
            /\ result[1].general = GeneralWith(input, sH, rH)

\* A call with screenSize 6.5 and refreshRate 120, both on a boundary.
C12_Witness ==
    /\ result # Null
    /\ input.screenSize = 65
    /\ input.refreshRate = 120
    /\ result[1].general = GeneralWith(input, 100, 105)

InRange(r) == \A c \in Channels : r[c] \in 1..200

\* C13: for every input whose enum fields are in their declared sets,
\* calculateSensitivity and generateExplanation have a value before the call
\* and the call leaves a result and an explanation; with screenSize <= 0 the
\* screen-size modifier is 1.08 and the six values lie in 1..200.
C13_Total ==
    /\ result = Null =>
        LET r == calculateSensitivity(input)
        IN  /\ InRange(r)
            /\ Len(generateExplanation(input, r)) \in 6..7
    /\ result # Null =>
        /\ explanation # Null
        /\ InRange(result[1])
        /\ input.screenSize <= 0 =>
            /\ ScreenSizeHundredths(input.screenSize) = 108
            /\ result[1].general =
                   GeneralWith(input, 108, RefreshRateHundredths(input.refreshRate))

\* A call with a negative screen size, refresh rate and dpi has returned.
C13_Witness ==
    /\ result # Null
    /\ explanation # Null
    /\ input.screenSize < 0
    /\ input.refreshRate < 0
    /\ input.dpi = Num(0 - 440)
    /\ InRange(result[1])

\* The input with the two dpi fields set to null and false.
WithoutDpi(inp) == [inp EXCEPT !.dpi = Null, !.useCustomDpi = FALSE]

\* C14: on ios and on unknown, the result and the explanation are those of
\* the input with dpi = null and useCustomDpi = false; hence two inputs that
\* differ only in dpi and useCustomDpi give the same outputs.
C14_DpiOnlyOnAndroid ==
    (result # Null /\ input.platform # "android") =>
        /\ result[1] = calculateSensitivity(WithoutDpi(input))
        /\ explanation[1] = generateExplanation(WithoutDpi(input), result[1])

\* A call on ios and a call on unknown, each with a dpi and useCustomDpi set.
C14_Witness ==
    /\ result # Null
    /\ input.platform # "android"
    /\ input.dpi = Num(440)
    /\ input.useCustomDpi
    /\ result[1] = calculateSensitivity(WithoutDpi(input))

----------------------------------------------------------------------------
(* Properties of generateExplanation.                                       *)

\* The sections of an explanation that carry the tag, in order.
SectionsOf(ex, tag) == SelectSeq(ex, LAMBDA sec : sec.section = tag)

\* The tags of the sections of an explanation, in order, the testing guide
\* that closes every explanation left out.
Commentary(ex) ==
    LET body == SelectSeq(ex, LAMBDA sec : sec.section # "testing guide")
    IN  [k \in 1..Len(body) |-> body[k].section]

\* C15: the explanation has one summary section, and it shows the six values
\* of the result passed in, unchanged, in the order general, redDot, scope2x,
\* scope4x, awmScope, freeLook, each under its caption.
C15_SummaryVerbatim ==
    result # Null =>
        LET summary == SectionsOf(explanation[1], "summary")
            r == result[1]
        IN  /\ Len(summary) = 1
            /\ summary[1].lines =
                   << <<"General", r.general>>, <<"Red Dot", r.redDot>>,
                      <<"2x Scope", r.scope2x>>, <<"4x Scope", r.scope4x>>,
                      <<"AWM Scope", r.awmScope>>, <<"Free Look", r.freeLook>> >>

\* The summary of scenario 7 shows 154, 144, 125, 104, 81, 154.
C15_Witness ==
    /\ result # Null
    /\ input = Scenario7
    /\ SectionsOf(explanation[1], "summary")[1].lines =
           << <<"General", 154>>, <<"Red Dot", 144>>, <<"2x Scope", 125>>,
              <<"4x Scope", 104>>, <<"AWM Scope", 81>>, <<"Free Look", 154>> >>

\* C16 as stated: for every valid input the explanation is made of the
\* device, screen, refresh, playstyle, ping and summary sections, each once,
\* in this order.
C16_SixSections ==
    result # Null =>
        Commentary(explanation[1]) =
            <<"device", "screen", "refresh", "playstyle", "ping", "summary">>

\* The inputs for which lines 240-254 write a device section.
HasDeviceSection(inp) ==
    \/ inp.platform = "ios"
    \/ inp.platform = "android" /\ inp.dpi # Null /\ inp.dpi[1] # 0

\* C16, amended: the screen, refresh, playstyle, ping and summary sections
\* are each present once, in this order; the device section comes first and
\* once when the platform is ios or is android with a dpi, and is absent when
\* the platform is unknown or is android without a dpi; the testing guide
\* closes the explanation.
C16_DeviceSectionOptional ==
    result # Null =>
        LET ex == explanation[1]
        IN  /\ Commentary(ex) =
                   (IF HasDeviceSection(input) THEN <<"device">> ELSE << >>)
                   \o <<"screen", "refresh", "playstyle", "ping", "summary">>
            /\ ex[Len(ex)].section = "testing guide"
            /\ Len(SectionsOf(ex, "testing guide")) = 1

\* An explanation for platform unknown, which has no device section, and a
\* dpi in the input.
C16_Witness ==
    /\ result # Null
    /\ input.platform = "unknown"
    /\ input.dpi # Null
    /\ Commentary(explanation[1]) =
           <<"screen", "refresh", "playstyle", "ping", "summary">>

RefreshText == SectionsOf(explanation[1], "refresh")[1].text

\* C17: the refresh-rate commentary is the high-refresh text from 120 Hz on,
\* the good-refresh text from 90 Hz to below 120 Hz, and the standard-60Hz
\* text below 90 Hz.
C17_RefreshThresholds ==
    result # Null =>
        /\ input.refreshRate >= 120 <=> RefreshText = "High refresh rate"
        /\ (input.refreshRate >= 90 /\ input.refreshRate < 120)
               <=> RefreshText = "Good refresh rate"
        /\ input.refreshRate < 90 <=> RefreshText = "Standard 60Hz display"

\* An explanation for exactly 120 Hz carries the high-refresh text.
C17_Witness ==
    /\ result # Null
    /\ input.refreshRate = 120
    /\ RefreshText = "High refresh rate"

----------------------------------------------------------------------------
(* The order of the playstyle table.                                        *)

\* The rows of PLAYSTYLE_MODIFIERS in the order of the source.
PlaystyleOrder ==
    <<"freestyle", "instaplayer", "rusher", "balanced", "onetap", "sniper">>

\* The steps from a row to the next one.
PlaystyleSteps == {k \in 1..Len(PlaystyleOrder) - 1 : PlaystyleOrder[k] = input.playstyle}

\* The channels whose modifier rises from rusher to balanced.
RisingAtBalanced == {"scope4x", "awmScope"}

\* C20 as stated: from each playstyle to the next one in the order freestyle,
\* instaplayer, rusher, balanced, onetap, sniper, no channel's modifier and
\* no channel's step-3 value increases.
C20_RowsDescending ==
    result # Null =>
        \A k \in PlaystyleSteps :
            LET p == PlaystyleOrder[k]
                q == PlaystyleOrder[k + 1]
                here  == Step3(input)
                there == Step3([input EXCEPT !.playstyle = q])
            IN  \A c \in Channels :
                    /\ PLAYSTYLE_HUNDREDTHS[q][c] <= PLAYSTYLE_HUNDREDTHS[p][c]
                    /\ there[c] <= here[c]

\* C20, amended: the same holds for every step and channel but the step from
\* rusher to balanced on scope4x and awmScope, where the modifier rises and
\* the step-3 value does not fall.
C20_DescendingButBalanced ==
    result # Null =>
        \A k \in PlaystyleSteps :
            LET p == PlaystyleOrder[k]
                q == PlaystyleOrder[k + 1]
                here  == Step3(input)
                there == Step3([input EXCEPT !.playstyle = q])
            IN  \A c \in Channels :
                    IF p = "rusher" /\ c \in RisingAtBalanced
                    THEN /\ PLAYSTYLE_HUNDREDTHS[q][c] > PLAYSTYLE_HUNDREDTHS[p][c]
                         /\ there[c] >= here[c]
                    ELSE /\ PLAYSTYLE_HUNDREDTHS[q][c] <= PLAYSTYLE_HUNDREDTHS[p][c]
                         /\ there[c] <= here[c]

\* A call for rusher whose scope4x and awmScope are lower than those of
\* balanced on the same other inputs, and whose general is higher.
C20_Witness ==
    /\ result # Null
    /\ input.playstyle = "rusher"
    /\ LET here  == Step3(input)
           there == Step3([input EXCEPT !.playstyle = "balanced"])
       IN  /\ there.scope4x > here.scope4x
           /\ there.awmScope > here.awmScope
           /\ there.general < here.general

----------------------------------------------------------------------------
(* Properties of the preset route.                                          *)

\* C18: a POST that succeeds appends the one preset it answers with and
\* leaves the stored presets before it as they were; a DELETE that succeeds
\* leaves exactly the stored presets whose id is not the one given, in
\* order; a DELETE without an id is answered 400 and leaves the file alone;
\* a GET answers with the stored presets and leaves the file alone.
C18_ListKeyedById ==
    [][LET before == getPresets(presetsFile)
           after  == getPresets(presetsFile')
           req    == presetRequest'
           resp   == presetResponse'
       IN  /\ (req.method = "POST" /\ resp.status = 200) =>
                  /\ after = Append(before, resp.preset)
                  /\ SubSeq(after, 1, Len(before)) = before
                  /\ resp.preset.name = req.name
           /\ (req.method = "DELETE" /\ resp.status = 200) =>
                  /\ after = SelectSeq(before, LAMBDA p : <<p.id>> # req.id)
                  /\ (\A k \in 1..Len(before) : <<before[k].id>> # req.id)
                         => after = before
           /\ (req.method = "DELETE" /\ req.id \in {Null, <<"">>}) =>
                  /\ resp.status = 400
                  /\ presetsFile' = presetsFile
           /\ req.method = "GET" =>
                  /\ resp.status = 200
                  /\ resp.presets = before
                  /\ presetsFile' = presetsFile]_vars

\* A DELETE has just taken a preset out of a store that still holds two
\* others.
C18_Witness ==
    /\ presetRequest.method = "DELETE"
    /\ presetResponse.status = 200
    /\ presetRequest.id = <<"preset_2">>
    /\ Len(getPresets(presetsFile)) = 2
    /\ \A k \in 1..2 : getPresets(presetsFile)[k].id # "preset_2"

----------------------------------------------------------------------------
(* Properties of the device-check route.                                    *)

InLog(op, log) == \E k \in 1..Len(log) : log[k] = op

\* C19: for a non-empty string the answer comes from the exact cache match
\* when there is one, else from the fuzzy match when there is one, else from
\* the AI service when it answers, else it is the not-found answer; the AI
\* service is asked only when the exact and the fuzzy match both fail, and
\* after the cache was read; a name that is absent, not a string or empty is
\* answered 400 with no read of the cache and no query to the AI service.
C19_ResolutionOrder ==
    [][LET req  == deviceRequest'
           resp == deviceResponse'
           log  == deviceLog'
           cache == getDevicesCache(devicesFile)
       IN  req.json =>
               IF req.deviceName.type = "string" /\ req.deviceName.value # ""
               THEN LET name  == req.deviceName.value
                        exact == Lookup(cache, normalized(name)) # Null
                        fuzzy == findSimilarDevice(name, cache) # Null
                    IN  /\ resp.status = 200
                        /\ log[1] = "readCache"
                        /\ InLog("queryAI", log) <=> (~exact /\ ~fuzzy)
                        /\ exact => resp.source = "cache"
                        /\ (~exact /\ fuzzy) => resp.source = "cache_fuzzy"
                        /\ (~exact /\ ~fuzzy /\ req.ai # Null) =>
                               /\ resp.source = "ai"
                               /\ resp.device = req.ai[1]
                        /\ (~exact /\ ~fuzzy /\ req.ai = Null) =>
                               /\ resp.success = FALSE
                               /\ resp.device = UnknownDevice(name)
                        /\ resp.success <=> (exact \/ fuzzy \/ req.ai # Null)
               ELSE /\ resp.status = 400
                    /\ log = <<>>
                    /\ devicesFile' = devicesFile]_vars

\* A name that is not in a cache that holds a device, answered from the
\* brand table of the fuzzy match with no query to the AI service.
C19_Witness ==
    /\ deviceRequest # NoRequest
    /\ deviceRequest.json
    /\ deviceRequest.deviceName = [type |-> "string", value |-> "ROG 5"]
    /\ Len(getDevicesCache(devicesFile)) > 0
    /\ deviceResponse.source = "cache_fuzzy"
    /\ deviceResponse.device.refresh_rate = "165"
    /\ deviceLog = <<"readCache">>

----------------------------------------------------------------------------
(* Properties of the repair pass.                                           *)

\* The input of the cascade: every modifier at its highest.
CascadeInput ==
    [platform |-> "android", playstyle |-> "freestyle", pingLevel |-> "high",
     screenSize |-> 55, refreshRate |-> 144, dpi |-> Num(360),
     useCustomDpi |-> FALSE]

\* The runs i..j of the scope chain whose step-3 values s are all equal and
\* that no equal value precedes.
TiedRuns(s) ==
    {run \in (1..Len(ScopeChain)) \X (1..Len(ScopeChain)) :
        /\ run[1] < run[2]
        /\ \A k \in run[1]..run[2] : s[ScopeChain[k]] = s[ScopeChain[run[1]]]
        /\ run[1] > 1 => s[ScopeChain[run[1] - 1]] # s[ScopeChain[run[1]]]}

\* C21: chain channels that are tied at v after step 3 are returned as v,
\* v - 1, v - 2, ... in the order of the chain; for the input of the cascade
\* the result is general 200, redDot 199, scope2x 198, scope4x 197.
C21_RepairCascades ==
    result # Null =>
        LET s == Step3(input)
            r == result[1]
        IN  /\ \A run \in TiedRuns(s) :
                   \A k \in run[1]..run[2] :
                       r[ScopeChain[k]] = s[ScopeChain[run[1]]] - (k - run[1])
            /\ input = CascadeInput =>
                   /\ \A k \in 1..4 : s[ScopeChain[k]] = 200
                   /\ r.general = 200 /\ r.redDot = 199
                   /\ r.scope2x = 198 /\ r.scope4x = 197

\* The cascade has run: four channels tied at 200 are returned 200 to 197.
C21_Witness ==
    /\ result # Null
    /\ input = CascadeInput
    /\ <<1, 4>> \in TiedRuns(Step3(input))
    /\ result[1].scope4x = 197

\* The playstyles whose freeLook is never below general.
FreeLookAtGeneral == {"rusher", "balanced", "onetap", "sniper"}

\* C26: for rusher, balanced, onetap and sniper the returned freeLook is the
\* returned general; for freestyle and instaplayer it is at most general.
C26_FreeLookFollowsGeneral ==
    result # Null =>
        IF input.playstyle \in FreeLookAtGeneral
        THEN result[1].freeLook = result[1].general
        ELSE result[1].freeLook <= result[1].general

\* A balanced call whose freeLook was cut to general, and which is below the
\* ceiling.
C26_Witness ==
    /\ result # Null
    /\ input.playstyle = "balanced"
    /\ result[1].freeLook = result[1].general
    /\ result[1].general < 200
    /\ Step3(input).freeLook > result[1].general

\* A freestyle call whose freeLook is below general.
C26_FreestyleBelow ==
    /\ result # Null
    /\ input.playstyle \in {"freestyle", "instaplayer"}
    /\ result[1].freeLook < result[1].general

Tail4 == <<"redDot", "scope2x", "scope4x", "awmScope">>

\* C27: the repair pass and the last clamp change redDot, scope2x, scope4x
\* or awmScope only when the returned general is 200; when general is below
\* 200 the chain is strictly descending after step 3 and these four channels
\* are returned as step 3 left them.
C27_RepairOnlyAtCeiling ==
    result # Null =>
        LET s == Step3(input)
            r == result[1]
            changed == \E k \in 1..4 : r[Tail4[k]] # s[Tail4[k]]
        IN  /\ changed => r.general = 200
            /\ r.general < 200 =>
                   /\ \A k \in 1..4 : s[ScopeChain[k]] > s[ScopeChain[k + 1]]
                   /\ ~changed

\* A call at the ceiling whose redDot the repair pass changed.
C27_Witness ==
    /\ result # Null
    /\ result[1].general = 200
    /\ result[1].redDot # Step3(input).redDot

----------------------------------------------------------------------------
(* Properties that tie the explanation to the arithmetic.                   *)

\* The input with useCustomDpi set to false.
NotCustom(inp) == [inp EXCEPT !.useCustomDpi = FALSE]

\* C28: for a valid input (dpi null or positive) with useCustomDpi = true,
\* the six values and the explanation are those of the same input with
\* useCustomDpi = false.
C28_UseCustomDpiIgnored ==
    (result # Null /\ input.useCustomDpi) =>
        /\ result[1] = calculateSensitivity(NotCustom(input))
        /\ explanation[1] = generateExplanation(NotCustom(input), result[1])

\* An android call with a dpi whose modifier is not 1 and useCustomDpi set.
C28_Witness ==
    /\ result # Null
    /\ input.useCustomDpi
    /\ input.platform = "android"
    /\ input.dpi = Num(520)
    /\ result[1] = calculateSensitivity(NotCustom(input))
    /\ result[1] # AsUnknown(input)

One == Lit(100)

\* The text of the section with the tag, "" when the explanation has none.
TextOf(ex, tag) ==
    IF SectionsOf(ex, tag) = << >> THEN "" ELSE SectionsOf(ex, tag)[1].text

\* The DPI level the device section names, "" when there is none.
LevelOf(ex) ==
    IF SectionsOf(ex, "device") = << >> THEN ""
    ELSE SectionsOf(ex, "device")[1].level

\* C29: the explanation says high DPI exactly for android with dpi > 480, and
\* then the platform modifier is below 1; it says low DPI exactly for android
\* with dpi < 360, and then the platform modifier is above 1; it says compact
\* screen exactly for screenSize < 6.0, and then the screen modifier is
\* above 1; large screen exactly for screenSize > 6.8, and then it is
\* below 1; high refresh rate exactly for refreshRate >= 120, and then the
\* refresh modifier is above 1.
C29_NarrativeAgrees ==
    result # Null =>
        LET ex == explanation[1]
            android == input.platform = "android" /\ input.dpi # Null
        IN  /\ LevelOf(ex) = "high" <=> (android /\ input.dpi[1] > 480)
            /\ LevelOf(ex) = "high" => Less(PlatformModifier(input), One)
            /\ LevelOf(ex) = "low" <=> (android /\ input.dpi[1] < 360)
            /\ LevelOf(ex) = "low" => Less(One, PlatformModifier(input))
            /\ TextOf(ex, "screen") = "Compact screen detected"
                   <=> input.screenSize < 60
            /\ TextOf(ex, "screen") = "Compact screen detected"
                   => Less(One, getScreenSizeModifier(input.screenSize))
            /\ TextOf(ex, "screen") = "Large screen detected"
                   <=> input.screenSize > 68
            /\ TextOf(ex, "screen") = "Large screen detected"
                   => Less(getScreenSizeModifier(input.screenSize), One)
            /\ TextOf(ex, "refresh") = "High refresh rate"
                   <=> input.refreshRate >= 120
            /\ TextOf(ex, "refresh") = "High refresh rate"
                   => Less(One, getRefreshRateModifier(input.refreshRate))

\* An explanation that says low DPI, compact screen and high refresh rate
\* at once, each just past its threshold.
C29_Witness ==
    /\ result # Null
    /\ input.dpi = Num(359)
    /\ input.screenSize = 59
    /\ input.refreshRate = 120
    /\ LevelOf(explanation[1]) = "low"
    /\ TextOf(explanation[1], "screen") = "Compact screen detected"
    /\ TextOf(explanation[1], "refresh") = "High refresh rate"

----------------------------------------------------------------------------
(* The cache of the device-check route across requests.                     *)

\* The file holds the device under the key that saveDeviceToCache gave it.
SavedInCache(device, file) ==
    /\ file.readable
    /\ Lookup(file.content, normalized(device.device_name)) = <<device>>

\* C23: once a device-check for a name was answered by the AI service and
\* the answer was saved, the next device-check for the same name is answered
\* from the cache, exactly or by a fuzzy match, and the AI service is not
\* asked again, whatever device_name the AI service gave.
C23_AnsweredFromCacheAfterAi ==
    [][(/\ deviceResponse.status = 200
        /\ deviceResponse.source = "ai"
        /\ SavedInCache(deviceResponse.device, devicesFile)
        /\ deviceRequest'.json
        /\ deviceRequest'.deviceName = deviceRequest.deviceName)
       => /\ deviceResponse'.source \in {"cache", "cache_fuzzy"}
          /\ ~InLog("queryAI", deviceLog')]_vars

\* The name "Zed" was answered by the AI service as the device "K9", saved
\* under the key "k9".
C23_SavedUnderOtherName ==
    /\ deviceResponse.status = 200
    /\ deviceResponse.source = "ai"
    /\ deviceRequest.deviceName = [type |-> "string", value |-> "Zed"]
    /\ deviceResponse.device.device_name = "K9"
    /\ SavedInCache(deviceResponse.device, devicesFile)

----------------------------------------------------------------------------
(* Properties of the form.                                                  *)

\* A fully validated input: a positive screen size and refresh rate, a dpi
\* that is null exactly off android and positive on android.
Validated(data) ==
    /\ data.screenSize > 0
    /\ data.refreshRate > 0
    /\ (data.dpi = Null) <=> (data.platform # "android")
    /\ data.dpi # Null => data.dpi[1] > 0

\* C22: every input the form hands on is fully validated, whatever strings
\* its screen size, refresh rate and dpi fields hold: the screen size and the
\* refresh rate are positive, and the dpi is null exactly when the platform
\* is not android and a positive integer otherwise.
C22_SubmittedInputValidated ==
    \A k \in 1..Len(timers) : Validated(timers[k])

\* The device check answered with a screen size of "-6.7" and a dpi of
\* "-440", and the form was submitted with them.
C22_NegativeSubmitted ==
    /\ timers # <<>>
    /\ timers[1].screenSize = 0 - 67
    /\ timers[1].dpi = Num(0 - 440)

\* Strings that do not parse, or that parse to zero, are replaced by the
\* defaults 6.5, 60 and 440, and the dpi is null exactly off android.
C22_DefaultsForUnparsableAndZero ==
    \A k \in 1..Len(timers) :
        /\ timers[k].screenSize # 0
        /\ timers[k].refreshRate # 0
        /\ (timers[k].dpi = Null) <=> (timers[k].platform # "android")
        /\ timers[k].dpi # Null => timers[k].dpi[1] # 0

\* C30: the form never holds a device error and a detected device together:
\* a device error that is not null implies that deviceSpecs is null.
C30_ErrorExcludesDevice == deviceError # Null => deviceSpecs = Null

\* The only error held beside a detected device is the one of the empty name.
C30_OnlyEmptyNameError ==
    (deviceError # Null /\ deviceSpecs # Null)
        => deviceError = <<"Please enter your device name">>

\* A device was detected, the name was emptied and checked again.
C30_ErrorBesideDevice ==
    /\ deviceError = <<"Please enter your device name">>
    /\ deviceSpecs # Null
    /\ formData.deviceName = ""

----------------------------------------------------------------------------
(* Properties of the page.                                                  *)

\* The last body handleSavePreset sent.
LastPost(posts) == posts[Len(posts)]

\* The six values keep the range and the order of the engine.
RangeAndOrder(r) ==
    /\ InRange(r)
    /\ \A k \in 1..4 : r[ScopeChain[k]] >= r[ScopeChain[k + 1]]
    /\ r.freeLook <= r.general

\* C24: the page computes before it persists: handleSavePreset sends a preset
\* only after a calculation has produced a result, and the sensitivities,
\* platform, playstyle, ping and dpi it sends are those of the calculation
\* completed last, also while a newer generate is pending; every preset sent
\* holds six values in range and in order.
C24_SavesLastCalculation ==
    [][presetPosts' # presetPosts =>
           /\ result # Null
           /\ result[1] = calculateSensitivity(input)
           /\ LastPost(presetPosts').sensitivities = result[1]
           /\ LastPost(presetPosts').platform = input.platform
           /\ LastPost(presetPosts').playstyle = input.playstyle
           /\ LastPost(presetPosts').ping = input.pingLevel
           /\ LastPost(presetPosts').dpi = input.dpi
           /\ RangeAndOrder(LastPost(presetPosts').sensitivities)]_vars

\* C24's case: a preset of the last calculation was sent, and a generate for
\* another playstyle is pending.
C24_Witness ==
    /\ presetPosts # <<>>
    /\ timers # <<>>
    /\ isLoading
    /\ generatedResult # Null
    /\ timers[1].playstyle # generatedResult[1].input.playstyle
    /\ LastPost(presetPosts).playstyle = generatedResult[1].input.playstyle
    /\ LastPost(presetPosts).sensitivities = generatedResult[1].result
    /\ LastPost(presetPosts).dpi = Num(440)

----------------------------------------------------------------------------
(* Properties of the preset route under concurrency.                        *)

\* Every request was answered.
AllAnswered == \A h \in 1..Len(presetHandlers) : presetHandlers[h].pc = "done"

\* The store holds a preset with the id.
Stored(id) ==
    \E k \in 1..Len(getPresets(presetsFile)) : getPresets(presetsFile)[k].id = id

\* The id was passed to a DELETE.
Deleted(id) ==
    \E h \in 1..Len(presetHandlers) :
        presetHandlers[h].method = "DELETE" /\ presetHandlers[h].id = id

\* C25: no preset is lost: once every request has been answered, a preset
\* whose POST answered success and whose id was never passed to DELETE is in
\* the store, whatever the order of the reads and writes of the handlers.
C25_NoPresetLost ==
    AllAnswered =>
        \A h \in 1..Len(presetHandlers) :
            (/\ presetHandlers[h].method = "POST"
             /\ presetHandlers[h].status = 200
             /\ ~Deleted(presetHandlers[h].id))
                => Stored(presetHandlers[h].id)

\* Two POSTs read the empty store before either wrote, both answered
\* success, and the store holds one preset.
C25_LostUpdate ==
    /\ Len(presetHandlers) = 2
    /\ AllAnswered
    /\ \A h \in 1..2 : presetHandlers[h].method = "POST"
                       /\ presetHandlers[h].status = 200
                       /\ Len(presetHandlers[h].data) = 1
    /\ Len(getPresets(presetsFile)) = 1

=============================================================================
